---- MODULE Spec2Model ----
\* Model of the file catalog of file-meta-tools (catalog.py / catalog-fs.py):
\* the table `files`, the per-root read of the current records, the snapshot
\* handed in by read_dir, the in-use check and the five batches of compare.
EXTENDS Integers, Sequences, FiniteSets, TLC

\* ---------------------------------------------------------------- bounds
\* Rows the table may hold (the table itself is unbounded).
MaxRecords == 2
\* Last reading of the store clock (CURRENT_TIMESTAMP, one-second resolution).
MaxTime == 1

\* ---------------------------------------------------------------- inputs
\* (device, inode) pairs as read_dir yields them (non-degenerate ids).
FileIDs == {<<1, 1>>, <<1, 2>>}
\* Roots as read_dir / get_by_root normalise them (forward slashes).
Roots == {"c:/", "d:/"}
\* The identities a scan of root r can meet: both files can lie under c:/,
\* and the first one can also lie under another root (moved there, or hard
\* linked from there).
Tree(r) == IF r \in {"c:/", "C:/"} THEN FileIDs ELSE {<<1, 1>>}
\* The (relpath, size, mtime) a scan of root r can report for identity id:
\* the first file changes its size, the second its modification time, and a
\* file under another root its path.
Observed(r, id) ==
    IF r \in {"c:/", "C:/"}
    THEN IF id = <<1, 1>>
         THEN {<<"a.txt", 10, 100>>, <<"a.txt", 20, 100>>}
         ELSE {<<"b.txt", 10, 100>>, <<"b.txt", 10, 200>>}
    ELSE {<<"a.txt", 10, 100>>, <<"x/a.txt", 10, 100>>}
\* Outcomes of is_open_for_write: False, True, PermissionError or
\* FileNotFoundError, any other OSError.
GuardOutcomes == {"free", "in_use", "transient", "oserror"}

VARIABLES
    files,            \* the table files, in rowid order
    now,              \* the store clock at the last statement
    case_insensitive, \* FilesDB.case_insensitive
    drives,           \* args.drives
    pc,               \* "loop": between two roots; "done": compare has returned;
                      \* "raised": an exception has left compare
    root,             \* root of the pass
    fs,               \* fsdict of the pass
    db,               \* dbdict of the pass
    guard,            \* outcome of is_open_for_write per identity it was called for
    calls,            \* the identities is_open_for_write was called for, in order
    before,           \* the table when the pass began
    ops,              \* the batches the pass handed to batch_executer
    deferred,         \* history: (root, identity) -> the record the last pass
                      \* over that root saw when it skipped the identity
    owner,            \* file system: identity -> how many files have held it
                      \* before the file that holds it now
    origin            \* history: per row of files, the owner of its identity
                      \* when the row was inserted

\* The store and the pass of catalog.py.
catalog == <<files, now, case_insensitive, drives, pc, root, fs, db, guard,
             calls, before, ops, deferred, owner, origin>>

VARIABLES
    entries,          \* read_dir: what scandir_rec yields for the tree, in its
                      \* order, each entry with what stat returns or raises
    reads,            \* read_dir: "none", "once" or "again": calls made so far
    fsdict,           \* read_dir: what the last call returned
    earlier,          \* read_dir: what the call before the last returned
    logged            \* read_dir: the log records of the last call

reader == <<entries, reads, fsdict, earlier, logged>>

VARIABLES
    reported,         \* ids: two unsigned values as stat reports them
    stored,           \* ids: what read_dir makes of them for the table
    exported          \* ids: what dict_to_csv writes for the stored values

encoding == <<reported, stored, exported>>

VARIABLES
    zip_in,           \* copy_zip: the members of the archive at path_in
    extras,           \* copy_zip: the argument extras
    comments,         \* copy_zip: the argument comments
    zip_out,          \* copy_zip: the members of the archive at path_out
    zipped,           \* "start"; "copied": copy_zip has returned; "raised":
                      \* it has raised; "tested": testzip has read the output
    bad,              \* what testzip returned for the output: the name of the
                      \* first bad member, or "None"
    zlib              \* what the module attribute zipfile.zlib is bound to

zipping == <<zip_in, extras, comments, zip_out, zipped, bad, zlib>>

VARIABLES
    proc,             \* per root, a run of the program over that root alone,
                      \* followed from one batch_executer call to the next:
                      \* where it is, its locals and what it has printed
    table0            \* the table when these runs were started

stepping == <<proc, table0>>

VARIABLES
    first_path,       \* compare.py: args.left_paths[0], as the kind of thing
                      \* at the path and the characters of its name
    iter_func,        \* what find_type returned for it, or the error raised
    args,             \* compare.py: preset, default_action and the
                      \* <name>_action options of the command line
    action_names,     \* what action_names_from_args returned for args
    left,             \* compare.py: the dict a of compare
    right,            \* the dict b of compare
    hasher,           \* TRUE when compare is given a Hasher (--hashfunc)
    dispatched        \* the do_single and do_both calls compare has made

comparing == <<first_path, iter_func, args, action_names, left, right, hasher,
               dispatched>>

VARIABLES
    unconsumed_tail,  \* DummyDecompress: the attribute of the object
    fed,              \* the data arguments of its decompress calls, joined
    returned,         \* the chunks its calls have returned, joined
    chunk             \* the last call: its max_length or length and its result

inflating == <<unconsumed_tail, fed, returned, chunk>>

\* Everything but the store and the pass.
aside == <<reader, encoding, zipping, stepping, comparing, inflating>>

vars == <<catalog, aside>>

\* ---------------------------------------------------------------- helpers
Range(s) == {s[i] : i \in DOMAIN s}

\* The sequences that list every element of S exactly once.
Orderings(S) ==
    {s \in [1..Cardinality(S) -> S] : Range(s) = S}

\* The elements of seq that lie in S, in the order of seq.
Restrict(seq, S) == SelectSeq(seq, LAMBDA x : x \in S)

FileIDOf(row) == <<row.device, row.inode>>

InfoOf(row) == <<row.root, row.path, row.filesize, row.utcmtime>>

\* NOCASE folds the ASCII letters.
Lower(r) ==
    CASE r = "C:/" -> "c:/"
      [] r = "D:/" -> "d:/"
      [] OTHER -> r

\* ---------------------------------------------------------------- FilesDB
\* root=? with or without COLLATE NOCASE.
RootMatch(ci, a, b) == IF ci THEN Lower(a) = Lower(b) ELSE a = b

\* (mutation: the deleted flag of the query is inverted)
get_by_root_inverted(tbl, ci, r, deleted) ==
    {i \in DOMAIN tbl :
        /\ tbl[i].deleted = 1 - deleted
        /\ RootMatch(ci, tbl[i].root, r)}

\* (mutation: the query has no condition on root)
get_by_root_any_root(tbl, ci, r, deleted) ==
    {i \in DOMAIN tbl : tbl[i].deleted = deleted}

\* WHERE deleted=? AND root=? [COLLATE NOCASE], as row indices.
get_by_root(tbl, ci, r, deleted) ==
    {i \in DOMAIN tbl :
        /\ tbl[i].deleted = deleted
        /\ RootMatch(ci, tbl[i].root, r)}

\* The dict comprehension: one entry per identity, a later row replacing an
\* earlier one of the same identity.
read_database(tbl, ci, r) ==
    LET rows == get_by_root(tbl, ci, r, 0)
        keys == {FileIDOf(tbl[i]) : i \in rows}
        last(id) == CHOOSE i \in rows :
                        /\ FileIDOf(tbl[i]) = id
                        /\ \A j \in rows : FileIDOf(tbl[j]) = id => j <= i
    IN [id \in keys |-> InfoOf(tbl[last(id)])]

\* ---------------------------------------------------------------- read_dir
\* The (root, relpath, size, mtime) read_dir can yield for id under root r.
Infos(r, id) == {<<r, o[1], o[2], o[3]>> : o \in Observed(r, id)}

\* The snapshots read_dir can return for root r: any mapping from some
\* identities to (root, relpath, size, mtime) with the root of the call.
Snapshots(r) ==
    UNION {{f \in [S -> UNION {Infos(r, id) : id \in S}] :
                \A id \in S : f[id] \in Infos(r, id)} :
              S \in SUBSET Tree(r)}

\* ---------------------------------------------------------------- updated_nodes
\* Identities compared: in both dicts.
Common(f, d) == DOMAIN f \cap DOMAIN d

\* (mutation: the check is made for every common identity)
Candidates_all(f, d) == Common(f, d)

\* Identities for which is_open_for_write is called.
Candidates(f, d) == {id \in Common(f, d) : f[id] # d[id]}

\* (mutation: the tuples are compared with "is", which no two of them pass)
equal_nodes_never(f, d) == {id \in Common(f, d) : FALSE}

equal_nodes(f, d) == {id \in Common(f, d) : f[id] = d[id]}

\* is_open_for_write raised (rather than returned).
IsError(outcome) == outcome \in {"transient", "oserror"}

\* (mutation: only the first except clause is there)
Caught_transient_only(outcome) == outcome = "transient"

\* The except clauses: (PermissionError, FileNotFoundError), then OSError.
Caught(outcome) == outcome \in {"transient", "oserror"}

\* (mutation: the loop runs over the keys of both dicts, one after the other)
checked_twice(f, d, ord) ==
    Restrict(ord, Candidates(f, d)) \o Restrict(ord, Candidates(f, d))

\* The calls of is_open_for_write in the loop over fs.keys() & db.keys(),
\* which visits its identities in the order ord.
checked(f, d, ord) == Restrict(ord, Candidates(f, d))

\* An exception of the check leaves updated_nodes.
Raises(f, d, g) ==
    \E id \in Candidates(f, d) : IsError(g[id]) /\ ~Caught(g[id])

\* (mutation: the test of in_use is inverted)
updated_inverted(f, d, g) == {id \in Candidates(f, d) : g[id] = "in_use"}

updated(f, d, g) == {id \in Candidates(f, d) : g[id] = "free"}

\* ---------------------------------------------------------------- statements
\* INSERT INTO files (device, inode, root, path, filesize, utcmtime):
\* begin_date and end_date default to CURRENT_TIMESTAMP, deleted to 0.
\* (mutation: begin_date has the default 0)
NewRow_epoch(id, info, t) ==
    [begin_date |-> 0, end_date |-> t, device |-> id[1], inode |-> id[2],
     root |-> info[1], path |-> info[2], filesize |-> info[3],
     utcmtime |-> info[4], deleted |-> 0]

NewRow(id, info, t) ==
    [begin_date |-> t, end_date |-> t, device |-> id[1], inode |-> id[2],
     root |-> info[1], path |-> info[2], filesize |-> info[3],
     utcmtime |-> info[4], deleted |-> 0]

\* (mutation: the last row of the batch is not written)
new_nodes_query_short(tbl, ids, f, t) ==
    tbl \o [k \in 1..(IF ids = <<>> THEN 0 ELSE Len(ids) - 1) |->
                NewRow(ids[k], f[ids[k]], t)]

new_nodes_query(tbl, ids, f, t) ==
    tbl \o [k \in 1..Len(ids) |-> NewRow(ids[k], f[ids[k]], t)]

\* (mutation: the statement selects deleted=1)
deleted_nodes_query_wrong_flag(tbl, ids) ==
    [i \in DOMAIN tbl |->
        IF FileIDOf(tbl[i]) \in Range(ids) /\ tbl[i].deleted = 1
        THEN [tbl[i] EXCEPT !.deleted = 1]
        ELSE tbl[i]]

\* (mutation: SET deleted = 1 - deleted, with no condition on deleted)
deleted_nodes_query_toggle(tbl, ids) ==
    [i \in DOMAIN tbl |->
        IF FileIDOf(tbl[i]) \in Range(ids)
        THEN [tbl[i] EXCEPT !.deleted = 1 - tbl[i].deleted]
        ELSE tbl[i]]

\* UPDATE files SET deleted=1 WHERE device=? AND inode=? AND deleted=0
deleted_nodes_query(tbl, ids) ==
    [i \in DOMAIN tbl |->
        IF FileIDOf(tbl[i]) \in Range(ids) /\ tbl[i].deleted = 0
        THEN [tbl[i] EXCEPT !.deleted = 1]
        ELSE tbl[i]]

\* (mutation: the statement sets begin_date)
unmodified_nodes_query_begin(tbl, ids, t) ==
    [i \in DOMAIN tbl |->
        IF FileIDOf(tbl[i]) \in Range(ids) /\ tbl[i].deleted = 0
        THEN [tbl[i] EXCEPT !.begin_date = t]
        ELSE tbl[i]]

\* (mutation: the statement has no condition on deleted)
unmodified_nodes_query_any(tbl, ids, t) ==
    [i \in DOMAIN tbl |->
        IF FileIDOf(tbl[i]) \in Range(ids)
        THEN [tbl[i] EXCEPT !.end_date = t]
        ELSE tbl[i]]

\* UPDATE files SET end_date=CURRENT_TIMESTAMP
\*   WHERE device=? AND inode=? AND deleted=0
unmodified_nodes_query(tbl, ids, t) ==
    [i \in DOMAIN tbl |->
        IF FileIDOf(tbl[i]) \in Range(ids) /\ tbl[i].deleted = 0
        THEN [tbl[i] EXCEPT !.end_date = t]
        ELSE tbl[i]]

\* ---------------------------------------------------------------- compare
\* (mutation: every identity of both dicts is touched)
Batches_touch_all(f, d, g, ord) ==
    [new        |-> Restrict(ord, DOMAIN f \ DOMAIN d),
     deleted    |-> Restrict(ord, DOMAIN d \ DOMAIN f),
     unmodified |-> IF Raises(f, d, g) THEN <<>>
                    ELSE Restrict(ord, Common(f, d)),
     modified   |-> IF Raises(f, d, g) THEN <<>>
                    ELSE Restrict(ord, updated(f, d, g))]

\* The batches handed to batch_executer; ord is the order in which the sets
\* are iterated. When updated_nodes raises, the last three calls are not made.
Batches(f, d, g, ord) ==
    [new        |-> Restrict(ord, DOMAIN f \ DOMAIN d),
     deleted    |-> Restrict(ord, DOMAIN d \ DOMAIN f),
     unmodified |-> IF Raises(f, d, g) THEN <<>>
                    ELSE Restrict(ord, equal_nodes(f, d)),
     modified   |-> IF Raises(f, d, g) THEN <<>>
                    ELSE Restrict(ord, updated(f, d, g))]

\* (mutation: the modified rows are inserted before the old ones are retired)
compare_insert_first(tbl, f, b, t) ==
    LET t1 == new_nodes_query(tbl, b.new, f, t)
        t2 == deleted_nodes_query(t1, b.deleted)
        t3 == unmodified_nodes_query(t2, b.unmodified, t)
        t4 == new_nodes_query(t3, b.modified, f, t)
    IN deleted_nodes_query(t4, b.modified)

\* (mutation: the batch of the vanished identities is not executed)
compare_skip_deleted(tbl, f, b, t) ==
    LET t1 == new_nodes_query(tbl, b.new, f, t)
        t3 == unmodified_nodes_query(t1, b.unmodified, t)
        t4 == deleted_nodes_query(t3, b.modified)
    IN new_nodes_query(t4, b.modified, f, t)

\* (mutation: the modified rows are retired and not inserted again)
compare_no_reinsert(tbl, f, b, t) ==
    LET t1 == new_nodes_query(tbl, b.new, f, t)
        t2 == deleted_nodes_query(t1, b.deleted)
        t3 == unmodified_nodes_query(t2, b.unmodified, t)
    IN deleted_nodes_query(t3, b.modified)

\* (mutation: the last two batch_executer calls have changed places)
compare_steps_insert_first(tbl, f, b, t) ==
    LET t1 == new_nodes_query(tbl, b.new, f, t)
        t2 == deleted_nodes_query(t1, b.deleted)
        t3 == unmodified_nodes_query(t2, b.unmodified, t)
        t4 == new_nodes_query(t3, b.modified, f, t)
    IN <<t1, t2, t3, t4, deleted_nodes_query(t4, b.modified)>>

\* The table after each of the five batch_executer calls of compare.
compare_steps(tbl, f, b, t) ==
    LET t1 == new_nodes_query(tbl, b.new, f, t)
        t2 == deleted_nodes_query(t1, b.deleted)
        t3 == unmodified_nodes_query(t2, b.unmodified, t)
        t4 == deleted_nodes_query(t3, b.modified)
    IN <<t1, t2, t3, t4, new_nodes_query(t4, b.modified, f, t)>>

\* The table after the batch_executer calls of compare.
compare(tbl, f, b, t) == compare_steps(tbl, f, b, t)[5]

\* read_dir has not been called and there is no tree.
NoReader ==
    /\ entries = <<>>
    /\ reads = "none"
    /\ fsdict = <<>>
    /\ earlier = <<>>
    /\ logged = <<>>

\* No ids are being encoded.
NoEncoding ==
    /\ reported = <<>>
    /\ stored = <<>>
    /\ exported = <<>>

\* No archive is being copied.
NoZipping ==
    /\ zip_in = <<>>
    /\ extras = TRUE
    /\ comments = TRUE
    /\ zip_out = <<>>
    /\ zipped = "start"
    /\ bad = "None"
    /\ zlib = "zlib"

NoOps == [new |-> <<>>, deleted |-> <<>>, unmodified |-> <<>>, modified |-> <<>>]

\* A run that has not read anything yet.
Idle ==
    [pc |-> "idle", step |-> 1, f |-> <<>>, d |-> <<>>, g |-> <<>>,
     b |-> NoOps, t |-> 0, printed |-> <<>>, orphaned |-> {}]

\* No run is followed batch by batch.
NoStepping ==
    /\ proc = [r \in Roots |-> Idle]
    /\ table0 = <<>>

\* compare.py is not run.
NoComparing ==
    /\ first_path = <<>>
    /\ iter_func = ""
    /\ args = <<>>
    /\ action_names = <<>>
    /\ left = <<>>
    /\ right = <<>>
    /\ hasher = FALSE
    /\ dispatched = <<>>

\* No DummyDecompress object is in use.
NoInflating ==
    /\ unconsumed_tail = <<>>
    /\ fed = <<>>
    /\ returned = <<>>
    /\ chunk = <<>>

\* Nothing but the catalog runs.
Aside ==
    /\ NoReader
    /\ NoEncoding
    /\ NoZipping
    /\ NoStepping
    /\ NoComparing
    /\ NoInflating

\* FilesDB(args.db_path), init() on a fresh store. case_insensitive is None in
\* the call, so it is taken from the platform: Windows, the platform of
\* genutility.win.file.is_open_for_write.
StartCatalog(ds) ==
    /\ files = <<>>
    /\ now = 0
    /\ case_insensitive = TRUE
    /\ drives = ds
    /\ pc = "loop"
    /\ root = ""
    /\ fs = <<>>
    /\ db = <<>>
    /\ guard = <<>>
    /\ calls = <<>>
    /\ before = <<>>
    /\ ops = NoOps
    /\ deferred = <<>>
    /\ owner = [id \in FileIDs |-> 0]
    /\ origin = <<>>

\* The catalog is run over the roots ds and nothing else happens.
Start(ds) == StartCatalog(ds) /\ Aside

\* --drives c:/ d:/
Init == Start(Roots)

\* The history of the rows' files, continued for the rows a pass appends to
\* old: each is the row of the file that holds its identity now.
Recorded(orig, own, old, new) ==
    orig \o [k \in 1..(Len(new) - Len(old)) |-> own[FileIDOf(new[Len(old) + k])]]

\* One iteration of the loop over the roots: read_database, read_dir, compare.
\* The statements of the pass read the clock at t: a pass is taken to fall
\* into one second of CURRENT_TIMESTAMP, and the clock does not go back.
Pass(r) ==
    /\ pc = "loop"
    /\ \E f \in Snapshots(r), t \in {now, now + 1} :
        LET d == read_database(files, case_insensitive, r)
        IN \E g \in [Candidates(f, d) -> GuardOutcomes],
              ord \in Orderings(DOMAIN f \cup DOMAIN d) :
            LET b == Batches(f, d, g, ord)
            IN /\ t <= MaxTime
               /\ Len(files) + Len(b.new) + Len(b.modified) <= MaxRecords
               /\ files' = compare(files, f, b, t)
               /\ now' = t
               /\ pc' = IF Raises(f, d, g) THEN "raised" ELSE "done"
               /\ root' = r
               /\ fs' = f
               /\ db' = d
               /\ guard' = g
               /\ calls' = checked(f, d, ord)
               /\ origin' = Recorded(origin, owner, files, files')
               /\ before' = files
               /\ ops' = b
               /\ UNCHANGED <<case_insensitive, drives, deferred, owner, aside>>

\* Identities for which the check did not return False.
Skipped(g) == {id \in DOMAIN g : g[id] # "free"}

\* The history after a pass over r that saw d and got g from the checks.
Deferral(h, r, d, g) ==
    LET kept == {p \in DOMAIN h : p[1] # r}
        here == {<<r, id>> : id \in Skipped(g)}
    IN [p \in kept \cup here |-> IF p \in here THEN d[p[2]] ELSE h[p]]

\* The loop moves on to its next root, or the program is run again: the
\* locals of the pass are dropped.
Forget ==
    /\ pc = "done"
    /\ pc' = "loop"
    /\ root' = ""
    /\ fs' = <<>>
    /\ db' = <<>>
    /\ guard' = <<>>
    /\ calls' = <<>>
    /\ before' = <<>>
    /\ ops' = NoOps
    /\ UNCHANGED <<files, now, case_insensitive, drives, owner, origin, aside>>

Return == Forget /\ UNCHANGED deferred

Next ==
    \/ \E r \in drives : Pass(r)
    \/ Return

Spec == Init /\ [][Next]_vars

\* ---------------------------------------------------------------- deferral
\* The same program run over one root, with the history of the skipped
\* identities kept; the loop always goes on to its next iteration.
\* --drives c:/
InitDefer == Start({"c:/"})

ReturnNoting == Forget /\ deferred' = Deferral(deferred, root, db, guard)

NextDefer ==
    \/ \E r \in drives : Pass(r)
    \/ ReturnNoting

SpecDefer ==
    /\ InitDefer
    /\ [][NextDefer]_vars
    /\ WF_vars(ReturnNoting)

\* ---------------------------------------------------------------- properties
\* Rows of tbl that carry identity id.
RowsOf(tbl, id) == {i \in DOMAIN tbl : FileIDOf(tbl[i]) = id}

\* Non-deleted rows of tbl that carry identity id.
CurrentOf(tbl, id) == {i \in RowsOf(tbl, id) : tbl[i].deleted = 0}

\* Row indices the pass has appended.
Appended == (Len(before) + 1)..Len(files)

\* Rows of the table before the pass that the view of the pass shows for id.
Viewed(id) ==
    {i \in get_by_root(before, case_insensitive, root, 0) :
        FileIDOf(before[i]) = id}

\* Identities the pass put into some batch.
Emitted ==
    Range(ops.new) \cup Range(ops.deleted) \cup Range(ops.unmodified)
        \cup Range(ops.modified)

\* C1 (invariant I1): in every state, two different rows with the same
\* identity and the same root are never both non-deleted.
C1_AtMostOneCurrentPerRoot ==
    \A i, j \in DOMAIN files :
        (/\ FileIDOf(files[i]) = FileIDOf(files[j])
         /\ files[i].root = files[j].root
         /\ files[i].deleted = 0
         /\ files[j].deleted = 0) => i = j

\* An identity has a retired and a current row under one root.
C1_Witness ==
    /\ pc = "done"
    /\ \E i, j \in DOMAIN files :
        /\ i < j
        /\ FileIDOf(files[i]) = FileIDOf(files[j])
        /\ files[i].root = files[j].root
        /\ files[i].deleted = 1
        /\ files[j].deleted = 0

\* C2 as stated: after a pass, an identity has at most one non-deleted row
\* in the whole table.
C2_OneCurrentInCatalog ==
    pc = "done" =>
        \A id \in FileIDs : Cardinality(CurrentOf(files, id)) <= 1

\* C2 as amended: after a pass, the non-deleted rows of one identity lie
\* under pairwise different roots (as the store compares roots), so there is
\* at most one of them per cataloged root.
C2_OneCurrentPerCatalogedRoot ==
    pc = "done" =>
        \A id \in FileIDs :
            /\ \A i, j \in CurrentOf(files, id) :
                i # j => ~RootMatch(case_insensitive, files[i].root, files[j].root)
            /\ Cardinality(CurrentOf(files, id)) <= Cardinality(drives)

\* After a pass an identity is current under two roots.
C2_Witness ==
    /\ pc = "done"
    /\ \E id \in FileIDs : Cardinality(CurrentOf(files, id)) = 2

\* C3: a pass over a root changes no row of another root.
C3_OtherRootsUnchanged ==
    pc = "done" =>
        \A i \in DOMAIN before :
            ~RootMatch(case_insensitive, before[i].root, root)
                => files[i] = before[i]

\* C4: an identity of the snapshot that the view lacks gets exactly one new
\* row, non-deleted, with the snapshot's attributes; it is in no other batch
\* and no existing row of it changes; an empty table and a one-entry snapshot
\* give one insert and nothing else.
C4_NewInserted ==
    pc = "done" =>
        /\ \A id \in DOMAIN fs \ DOMAIN db :
            /\ \E k \in Appended :
                /\ RowsOf(files, id) \cap Appended = {k}
                /\ InfoOf(files[k]) = fs[id]
                /\ files[k].deleted = 0
            /\ id \notin Range(ops.deleted) \cup Range(ops.unmodified)
                            \cup Range(ops.modified)
            /\ \A i \in RowsOf(before, id) : files[i] = before[i]
        /\ (before = <<>> /\ Cardinality(DOMAIN fs) = 1) =>
            /\ Len(files) = 1
            /\ Len(ops.new) = 1
            /\ ops.deleted = <<>> /\ ops.unmodified = <<>> /\ ops.modified = <<>>

\* Scenario A has run.
C4_Witness ==
    /\ pc = "done"
    /\ before = <<>>
    /\ fs = (<<1, 1>> :> <<"c:/", "a.txt", 10, 100>>)
    /\ Len(files) = 1

\* C5: an identity of the view that the snapshot lacks has its current row
\* marked deleted, nothing else of the row changing; it gets no insert and no
\* touch, and the root's view after the pass does not hold it.
C5_GoneMarkedDeleted ==
    pc = "done" =>
        \A id \in DOMAIN db \ DOMAIN fs :
            /\ Viewed(id) # {}
            /\ \A i \in Viewed(id) : files[i] = [before[i] EXCEPT !.deleted = 1]
            /\ RowsOf(files, id) \cap Appended = {}
            /\ id \notin Range(ops.new) \cup Range(ops.unmodified)
                            \cup Range(ops.modified)
            /\ id \notin DOMAIN read_database(files, case_insensitive, root)

\* Scenario B has run: the view held one identity, the snapshot none.
C5_Witness ==
    /\ pc = "done"
    /\ fs = <<>>
    /\ DOMAIN db = {<<1, 1>>}
    /\ \A i \in DOMAIN files : files[i].deleted = 1

\* C6: an identity whose snapshot and view attributes are equal is only
\* touched: the end date of its current row is the time of the pass, the rest
\* of the row is as before, no row is inserted for it and is_open_for_write is
\* not called for it.
C6_EqualTouched ==
    pc = "done" =>
        \A id \in Common(fs, db) :
            fs[id] = db[id] =>
                /\ Viewed(id) # {}
                /\ \A i \in Viewed(id) : files[i] = [before[i] EXCEPT !.end_date = now]
                /\ RowsOf(files, id) \cap Appended = {}
                /\ id \in Range(ops.unmodified)
                /\ id \notin Range(ops.new) \cup Range(ops.deleted)
                                \cup Range(ops.modified)
                /\ id \notin DOMAIN guard

\* Scenario C has run and the touch has moved the end date.
C6_Witness ==
    /\ pc = "done"
    /\ \E id \in Common(fs, db) :
        /\ fs[id] = db[id]
        /\ \E i \in Viewed(id) : before[i].end_date < files[i].end_date

\* The row of the table before the pass and the appended row of a modified
\* identity.
Replaced(id, old, new) ==
    /\ Viewed(id) = {old}
    /\ RowsOf(files, id) \cap Appended = {new}
    /\ files[old] = [before[old] EXCEPT !.deleted = 1]
    /\ InfoOf(files[old]) = db[id]
    /\ InfoOf(files[new]) = fs[id]
    /\ files[new].deleted = 0

\* C7 as stated: a differing identity that is not in use has its old row
\* retired as it was, and a new current row with the snapshot's attributes
\* whose begin date is later than the old row's.
C7_ModifiedBeginsLater ==
    pc = "done" =>
        \A id \in Candidates(fs, db) :
            guard[id] = "free" =>
                \E old \in DOMAIN before, new \in Appended :
                    /\ Replaced(id, old, new)
                    /\ files[new].begin_date > before[old].begin_date

\* C7 as amended: the begin date of the new row is the reading of the store
\* clock at the insert, which is not earlier than the old row's begin date.
C7_ModifiedReplaced ==
    pc = "done" =>
        \A id \in Candidates(fs, db) :
            guard[id] = "free" =>
                \E old \in DOMAIN before, new \in Appended :
                    /\ Replaced(id, old, new)
                    /\ files[new].begin_date = now
                    /\ files[new].begin_date >= before[old].begin_date

\* Scenario D has run: the size differs, the file is not in use, and the
\* clock has moved since the old row was written.
C7_Witness ==
    /\ pc = "done"
    /\ \E id \in Candidates(fs, db) :
        /\ guard[id] = "free"
        /\ fs[id][3] # db[id][3]
        /\ \E old \in Viewed(id), new \in Appended :
            /\ FileIDOf(files[new]) = id
            /\ files[new].begin_date > before[old].begin_date

\* C8: a differing identity that is open for writing is in no batch; no row
\* of it changes and none is inserted, and the root's view after the pass
\* shows the record the pass saw.
C8_InUseUntouched ==
    pc = "done" =>
        \A id \in Candidates(fs, db) :
            guard[id] = "in_use" =>
                /\ id \notin Emitted
                /\ \A i \in RowsOf(before, id) : files[i] = before[i]
                /\ RowsOf(files, id) \cap Appended = {}
                /\ id \in DOMAIN read_database(files, case_insensitive, root)
                /\ read_database(files, case_insensitive, root)[id] = db[id]

\* A pass has met a differing file that is open for writing.
C8_Witness ==
    /\ pc = "done"
    /\ \E id \in Candidates(fs, db) : guard[id] = "in_use"

\* The pass over r has ended after skipping some identity.
DeferredNow(r) ==
    /\ pc = "done"
    /\ root = r
    /\ Skipped(guard) # {}

\* After the pass, the root's view of the table shows the snapshot's
\* attributes for id, if the snapshot holds id.
Agrees(id) ==
    id \in DOMAIN fs =>
        /\ id \in DOMAIN read_database(files, case_insensitive, root)
        /\ read_database(files, case_insensitive, root)[id] = fs[id]

\* The pass over r has ended and every call of is_open_for_write in it has
\* returned False.
FreeDone(r) ==
    /\ pc = "done"
    /\ root = r
    /\ \A id \in DOMAIN guard : guard[id] = "free"

\* The pass over r has ended and the table agrees with its snapshot.
Settled(r) ==
    /\ pc = "done"
    /\ root = r
    /\ \A id \in FileIDs : Agrees(id)

\* A pass meets an identity that the pass before it over the same root
\* skipped; it still differs and is not in use: the record in the view is the
\* record the skipping pass saw, it is retired as it was, and one row with the
\* attributes of this pass's snapshot is inserted.
CapturedAsModified ==
    pc = "done" =>
        \A id \in Candidates(fs, db) :
            (<<root, id>> \in DOMAIN deferred /\ guard[id] = "free") =>
                /\ db[id] = deferred[<<root, id>>]
                /\ \E old \in DOMAIN before, new \in Appended :
                    /\ Replaced(id, old, new)
                    /\ files[new].begin_date = now
                /\ Agrees(id)

\* C9: an identity skipped by earlier passes is captured, as a modification,
\* by the later pass that finds it still differing and not in use; and when
\* passes whose checks all return False keep coming, a pass that skips is
\* followed by a pass over the same root after which the table agrees with
\* the snapshot on every identity.
C9_DeferredCapture ==
    /\ []CapturedAsModified
    /\ \A r \in Roots : []<>FreeDone(r) => (DeferredNow(r) ~> Settled(r))

\* Scenario E has run: a skipped identity is captured by the next pass.
C9_Witness ==
    /\ pc = "done"
    /\ \E id \in Candidates(fs, db) :
        /\ <<root, id>> \in DOMAIN deferred
        /\ guard[id] = "free"
        /\ Len(files) = Len(before) + 1

\* The rows of tbl that do not carry identity id, in table order.
RowsNot(tbl, id) == SelectSeq(tbl, LAMBDA row : FileIDOf(row) # id)

\* C10: when is_open_for_write raises for a differing identity, the pass
\* still ends normally; that identity is in no batch and its rows are as
\* before; and the rows of every other identity are what the pass writes
\* when the check of that identity returns instead, whatever it returns.
C10_GuardFailureLocal ==
    /\ pc # "raised"
    /\ pc = "done" =>
        \A id \in Candidates(fs, db) :
            IsError(guard[id]) =>
                /\ id \notin Emitted
                /\ \A i \in RowsOf(before, id) : files[i] = before[i]
                /\ RowsOf(files, id) \cap Appended = {}
                /\ \A x \in {"free", "in_use"} :
                    \E ord \in Orderings(DOMAIN fs \cup DOMAIN db) :
                        RowsNot(files, id) =
                            RowsNot(compare(before, fs,
                                        Batches(fs, db, [guard EXCEPT ![id] = x], ord),
                                        now), id)

\* The check has failed with an OSError for one identity in a pass that wrote
\* rows of another identity.
C10_Witness ==
    /\ pc = "done"
    /\ \E id \in Candidates(fs, db) :
        /\ guard[id] = "oserror"
        /\ RowsNot(files, id) # RowsNot(before, id)

\* C11: in a pass is_open_for_write is called at most once per identity, only
\* for identities of both dicts whose tuples differ, and for none that is
\* inserted as new, marked as vanished or touched.
C11_GuardCalledOncePerCandidate ==
    pc = "done" =>
        /\ \A i, j \in DOMAIN calls : calls[i] = calls[j] => i = j
        /\ Range(calls) = DOMAIN guard
        /\ \A id \in Range(calls) :
            /\ id \in DOMAIN fs /\ id \in DOMAIN db
            /\ fs[id] # db[id]
            /\ id \notin Range(ops.new) \cup Range(ops.deleted)
                            \cup Range(ops.unmodified)

\* A pass has checked one identity and touched another.
C11_Witness ==
    /\ pc = "done"
    /\ Len(calls) = 1
    /\ Len(ops.unmodified) = 1
    /\ calls # ops.unmodified

\* The pass with view d2, checks g2, iteration order ord2 and clock t2 that
\* follows the logged pass over the same root with the same snapshot inserts
\* and retires nothing, and touches every identity of the snapshot.
TouchesOnly(d2, g2, ord2, t2) ==
    LET b2 == Batches(fs, d2, g2, ord2)
        files2 == compare(files, fs, b2, t2)
    IN /\ b2.new = <<>>
       /\ b2.deleted = <<>>
       /\ b2.modified = <<>>
       /\ Range(b2.unmodified) = DOMAIN fs
       /\ Len(files2) = Len(files)
       /\ \A i \in DOMAIN files :
           files2[i] = [files[i] EXCEPT !.end_date = files2[i].end_date]

\* C12: after a pass in which no file was in use, a second pass over the same
\* root with the same snapshot and again no file in use inserts nothing and
\* marks nothing deleted: it touches the record of every identity of the
\* snapshot and changes end_date only.
C12_SecondPassTouchesOnly ==
    (pc = "done" /\ \A id \in DOMAIN guard : guard[id] = "free") =>
        LET d2 == read_database(files, case_insensitive, root)
        IN \A g2 \in [Candidates(fs, d2) -> {"free"}] :
            \A ord2 \in Orderings(DOMAIN fs \cup DOMAIN d2) :
                \A t2 \in {now, now + 1} : TouchesOnly(d2, g2, ord2, t2)

\* A pass met the catalog that a pass over the same snapshot had left, after
\* that pass had replaced a record: there is a retired record, and the
\* snapshot is the view.
C12_Witness ==
    /\ pc = "done"
    /\ DOMAIN fs # {}
    /\ fs = db
    /\ \E i \in DOMAIN before : before[i].deleted = 1
    /\ ops.new = <<>> /\ ops.deleted = <<>> /\ ops.modified = <<>>
    /\ Len(ops.unmodified) = Cardinality(DOMAIN fs)

\* The categories of a pass, by the statement an identity is handed to:
\* new_nodes_query (new and modified), deleted_nodes_query (vanished and
\* modified), unmodified_nodes_query, or none because the check said in use
\* or failed.
InsertOps == Range(ops.new) \cup Range(ops.modified)
MarkDeletedOps == Range(ops.deleted) \cup Range(ops.modified)
TouchOps == Range(ops.unmodified)
SkippedOps == Skipped(guard)

\* C13: every identity of the snapshot or of the view is inserted, marked
\* deleted, touched or skipped by the pass, and no other identity is.
C13_EveryIdentityCovered ==
    pc = "done" =>
        InsertOps \cup MarkDeletedOps \cup TouchOps \cup SkippedOps
            = DOMAIN fs \cup DOMAIN db

\* A pass had an unchanged identity to touch and a changed one to skip.
C13_Witness ==
    /\ pc = "done"
    /\ TouchOps # {}
    /\ SkippedOps # {}
    /\ Cardinality(DOMAIN fs \cup DOMAIN db) = 2

\* C14 as stated: no identity is in two of the four categories.
C14_CategoriesDisjoint ==
    pc = "done" =>
        /\ InsertOps \cap MarkDeletedOps = {}
        /\ InsertOps \cap TouchOps = {}
        /\ InsertOps \cap SkippedOps = {}
        /\ MarkDeletedOps \cap TouchOps = {}
        /\ MarkDeletedOps \cap SkippedOps = {}
        /\ TouchOps \cap SkippedOps = {}

\* C14, amended: the categories are pairwise disjoint but for Insert and
\* MarkDeleted, which share exactly the modified identities.
C14_DisjointButForModified ==
    pc = "done" =>
        /\ InsertOps \cap MarkDeletedOps = updated(fs, db, guard)
        /\ InsertOps \cap TouchOps = {}
        /\ InsertOps \cap SkippedOps = {}
        /\ MarkDeletedOps \cap TouchOps = {}
        /\ MarkDeletedOps \cap SkippedOps = {}
        /\ TouchOps \cap SkippedOps = {}

\* A pass replaced a record: its identity is in both categories.
C14_Witness ==
    /\ pc = "done"
    /\ InsertOps \cap MarkDeletedOps # {}

NoDuplicates(seq) == \A i, j \in DOMAIN seq : seq[i] = seq[j] => i = j

\* C15: no batch of a pass holds an identity twice, neither do the two insert
\* batches or the two mark-deleted batches together; an identity is handed
\* both to an insert and to a mark-deleted batch only if it is modified; and
\* no touched identity is in an insert or a mark-deleted batch.
C15_BatchHygiene ==
    pc = "done" =>
        /\ NoDuplicates(ops.new \o ops.modified)
        /\ NoDuplicates(ops.deleted \o ops.modified)
        /\ NoDuplicates(ops.unmodified)
        /\ \A id \in InsertOps \cap MarkDeletedOps :
            /\ id \in Range(ops.modified)
            /\ id \in DOMAIN fs /\ id \in DOMAIN db /\ fs[id] # db[id]
        /\ TouchOps \cap (InsertOps \cup MarkDeletedOps) = {}

\* A pass inserted one identity as new and marked the other as vanished.
C15_Witness ==
    /\ pc = "done"
    /\ Len(ops.new) = 1
    /\ Len(ops.deleted) = 1

\* C16: the rows of a modified identity are marked deleted before its new row
\* is inserted: after the mark-deleted call the identity has no non-deleted
\* row and the new row is not there yet, and after the insert call its one
\* non-deleted row is the new one, with the attributes of the snapshot.
C16_RetiredBeforeInserted ==
    pc = "done" =>
        LET s == compare_steps(before, fs, ops, now)
        IN /\ files = s[5]
           /\ \A id \in Range(ops.modified) :
               /\ CurrentOf(s[4], id) = {}
               /\ Len(s[4]) = Len(s[1])
               /\ \E k \in DOMAIN s[5] \ DOMAIN s[4] :
                   /\ CurrentOf(s[5], id) = {k}
                   /\ InfoOf(s[5][k]) = fs[id]

\* A pass replaced a record that had a non-deleted row before.
C16_Witness ==
    /\ pc = "done"
    /\ \E id \in Range(ops.modified) :
        /\ CurrentOf(before, id) # {}
        /\ Cardinality(RowsOf(files, id)) = 2

\* C17: a pass removes no row and reorders none; in the rows that were there
\* it changes nothing but end_date and deleted, and deleted never goes from 1
\* back to 0. (Between passes the table is not written.)
C17_AppendOnly ==
    /\ Len(before) <= Len(files)
    /\ \A i \in DOMAIN before :
        /\ files[i] = [before[i] EXCEPT !.end_date = files[i].end_date,
                                        !.deleted = files[i].deleted]
        /\ before[i].deleted <= files[i].deleted

\* A pass has met a deleted row and a non-deleted one, appended nothing and
\* marked the non-deleted one deleted.
C17_Witness ==
    /\ pc = "done"
    /\ Len(before) = 2 /\ Len(files) = 2
    /\ before[1].deleted = 1 /\ before[2].deleted = 0
    /\ files[1].deleted = 1 /\ files[2].deleted = 1

\* ---------------------------------------------------------------- clock
\* The runs in which CURRENT_TIMESTAMP is later in every pass than in all
\* passes before it. A pass over an empty table has no earlier timestamp to
\* meet, so the second it reads is free.
PassLater(r) == Pass(r) /\ (files = <<>> \/ now' > now)

NextClock == (\E r \in drives : PassLater(r)) \/ Return

SpecClock == Init /\ [][NextClock]_vars

\* Row i lies wholly before row j.
Before(i, j) == files[i].end_date < files[j].begin_date

\* Invariant I2 for the rows i and j of one identity.
History(i, j) ==
    /\ Before(i, j) \/ Before(j, i)
    /\ files[i].deleted = 0 => files[j].begin_date < files[i].begin_date

\* C18 as stated (invariant I2): with a strictly increasing clock, two rows of
\* one identity have disjoint intervals [begin_date, end_date], and a
\* non-deleted row began later than every other row of its identity.
C18_HistoryPerIdentity ==
    \A i, j \in DOMAIN files :
        (i # j /\ FileIDOf(files[i]) = FileIDOf(files[j])) => History(i, j)

\* C18, amended: the same, for two rows of one identity under one root.
C18_HistoryPerIdentityAndRoot ==
    \A i, j \in DOMAIN files :
        (/\ i # j
         /\ FileIDOf(files[i]) = FileIDOf(files[j])
         /\ files[i].root = files[j].root) => History(i, j)

\* A record has been replaced: a deleted row and a later non-deleted row of
\* one identity under one root.
C18_Witness ==
    \E i, j \in DOMAIN files :
        /\ FileIDOf(files[i]) = FileIDOf(files[j])
        /\ files[i].root = files[j].root
        /\ files[i].deleted = 1 /\ files[j].deleted = 0
        /\ files[i].begin_date < files[j].begin_date

\* ---------------------------------------------------------------- reuse
\* Between two passes the file system may give the identity of a deleted
\* file to a new, unrelated file; st_dev and st_ino do not tell the two apart.
MaxReuse == 1

Reuse(id) ==
    /\ pc = "loop"
    /\ owner[id] < MaxReuse
    /\ owner' = [owner EXCEPT ![id] = owner[id] + 1]
    /\ UNCHANGED <<files, now, case_insensitive, drives, pc, root, fs, db,
                   guard, calls, before, ops, deferred, origin, aside>>

InitReuse == Start({"d:/"})

NextReuse ==
    \/ \E r \in drives : Pass(r)
    \/ Return
    \/ \E r \in drives : \E id \in Tree(r) : Reuse(id)

SpecReuse == InitReuse /\ [][NextReuse]_vars

\* The pass finds identity id held by another file than the one its record i
\* was inserted for, with the tuple of the record.
ReusedWithEqualTuple(id, i) ==
    /\ id \in DOMAIN fs /\ id \in DOMAIN db
    /\ i \in Viewed(id)
    /\ fs[id] = db[id]
    /\ origin[i] # owner[id]

\* C19: when an identity was reused by an unrelated file that has the path,
\* size and mtime of the record, the pass only touches: the identity is in no
\* insert or mark-deleted batch, no row is added for it, and the one record,
\* inserted for the first file and still non-deleted, is extended to now.
C19_ReuseWithEqualTupleTouched ==
    pc = "done" =>
        \A id \in FileIDs : \A i \in DOMAIN before :
            ReusedWithEqualTuple(id, i) =>
                /\ id \in TouchOps
                /\ id \notin InsertOps \cup MarkDeletedOps
                /\ RowsOf(files, id) = RowsOf(before, id)
                /\ CurrentOf(files, id) = {i}
                /\ files[i] = [before[i] EXCEPT !.end_date = now]

\* Such a pass, at a later second than the end of the record.
C19_Witness ==
    /\ pc = "done"
    /\ \E id \in FileIDs : \E i \in DOMAIN before :
        /\ ReusedWithEqualTuple(id, i)
        /\ before[i].end_date < files[i].end_date

\* Row i of the table the pass began with is a non-deleted row of the root of
\* the pass, as the store compares roots.
CurrentOfRoot(i) ==
    /\ before[i].deleted = 0
    /\ RootMatch(case_insensitive, before[i].root, root)

\* C20: the view of a pass holds exactly the non-deleted records of its root:
\* each entry is such a record, each such record is an entry, and no deleted
\* record and no record of another root is in it.
C20_ViewIsCurrentOfRoot ==
    pc = "done" =>
        /\ \A id \in DOMAIN db :
            \E i \in DOMAIN before :
                /\ CurrentOfRoot(i)
                /\ FileIDOf(before[i]) = id
                /\ InfoOf(before[i]) = db[id]
        /\ \A i \in DOMAIN before :
            IF CurrentOfRoot(i)
            THEN /\ FileIDOf(before[i]) \in DOMAIN db
                 /\ db[FileIDOf(before[i])] = InfoOf(before[i])
            ELSE \/ FileIDOf(before[i]) \notin DOMAIN db
                 \/ \E j \in DOMAIN before :
                     /\ j # i
                     /\ CurrentOfRoot(j)
                     /\ FileIDOf(before[j]) = FileIDOf(before[i])

\* A pass began with a record of its root and one of the other root, both
\* non-deleted and of one identity, and its view holds the first.
C20_Witness ==
    /\ pc = "done"
    /\ \E i, j \in DOMAIN before :
        /\ CurrentOfRoot(i)
        /\ before[j].deleted = 0 /\ before[j].root # root
        /\ FileIDOf(before[i]) = FileIDOf(before[j])
        /\ db = (FileIDOf(before[i]) :> InfoOf(before[i]))

\* ---------------------------------------------------------------- read_dir
\* Bits of a device or inode id (64 in the program).
Width == 3
\* Entries scandir_rec yields for the tree.
MaxEntries == 2

\* 2**63
Offset == 2 ^ (Width - 1)

is_signed_int_64(num) == -Offset <= num /\ num <= Offset - 1

\* (mutation: the value is stored as the file system reports it)
unsigned_to_signed_int_64_same(num) == num

unsigned_to_signed_int_64(num) == num - Offset

\* (mutation: the offset is taken off once more)
signed_to_unsigned_int_64_minus(num) == num - Offset

signed_to_unsigned_int_64(num) == num + Offset

\* What stat raises for an entry: the first two are caught by the first
\* except clause, OSError by the second.
StatErrors == {"PermissionError", "FileNotFoundError", "OSError"}

\* What stat does: it raises, or it returns st_dev and st_ino, which are
\* unsigned and 0 when the platform has no id for the file, and the size and
\* modification time, which fit the signed range. One inode id is the largest
\* there is.
Stats ==
    [raises : {"no"}, st_dev : {0, 1}, st_ino : {0, 1, 2 ^ Width - 1},
     st_size : {1}, st_mtime_ns : {1, 2}]
    \cup [raises : StatErrors, st_dev : {0}, st_ino : {0}, st_size : {0},
          st_mtime_ns : {0}]

\* entry.relpath as Windows gives it.
RelPaths == {"a.txt", "b.txt", "x\\a.txt"}

\* str.replace("\\", "/")
Slashed(p) ==
    CASE p = "x\\a.txt" -> "x/a.txt"
      [] p = "c:\\" -> "c:/"
      [] OTHER -> p

Entries == [relpath : RelPaths, stat : Stats]

\* The trees: up to MaxEntries files, no two with the same path.
Trees ==
    UNION {{es \in [1..n -> Entries] :
               \A i, j \in 1..n : es[i].relpath = es[j].relpath => i = j} :
           n \in 0..MaxEntries}

\* (mutation: "or" for "and")
Valid_either(st) == st.st_dev # 0 \/ st.st_ino # 0

\* if stats.st_dev != 0 and stats.st_ino != 0
Valid(st) == st.st_dev # 0 /\ st.st_ino # 0

\* The entry is yielded: stat returned and the id is not degenerate.
Yields(e) == e.stat.raises = "no" /\ Valid(e.stat)

\* The asserted ranges of what is yielded for e.
Asserted(e) ==
    /\ is_signed_int_64(unsigned_to_signed_int_64(e.stat.st_ino))
    /\ is_signed_int_64(unsigned_to_signed_int_64(e.stat.st_dev))
    /\ is_signed_int_64(e.stat.st_size)
    /\ is_signed_int_64(e.stat.st_mtime_ns)

\* yield (device, inode), (root, relpath, stats.st_size, stats.st_mtime_ns)
Yielded(path, e) ==
    <<<<unsigned_to_signed_int_64(e.stat.st_dev),
        unsigned_to_signed_int_64(e.stat.st_ino)>>,
      <<Slashed(path), Slashed(e.relpath), e.stat.st_size,
        e.stat.st_mtime_ns>>>>

\* (mutation: "break" for "continue" in the except clauses)
RECURSIVE it_break(_, _)
it_break(path, es) ==
    IF es = <<>> \/ Head(es).stat.raises \in StatErrors
    THEN <<>>
    ELSE IF Yields(Head(es))
         THEN <<Yielded(path, Head(es))>> \o it_break(path, Tail(es))
         ELSE it_break(path, Tail(es))

\* The generator it(): the items yielded for the entries es, in their order.
RECURSIVE it(_, _)
it(path, es) ==
    IF es = <<>>
    THEN <<>>
    ELSE IF Yields(Head(es))
         THEN <<Yielded(path, Head(es))>> \o it(path, Tail(es))
         ELSE it(path, Tail(es))

\* dict(items): a later item replaces an earlier one with the same key.
dict(items) ==
    LET keys == {items[i][1] : i \in DOMAIN items}
        last(k) == CHOOSE i \in DOMAIN items :
                       /\ items[i][1] = k
                       /\ \A j \in DOMAIN items : items[j][1] = k => j <= i
    IN [k \in keys |-> items[last(k)][2]]

\* The assert fails for an entry of es: AssertionError leaves read_dir.
Fails(es) == \E i \in DOMAIN es : Yields(es[i]) /\ ~Asserted(es[i])

\* return dict(it())
read_dir(path, es) == dict(it(path, es))

\* The records read_dir logs for es: level and relpath of each entry left out.
RECURSIVE log(_)
log(es) ==
    IF es = <<>>
    THEN <<>>
    ELSE LET e == Head(es)
         IN IF e.stat.raises \in {"PermissionError", "FileNotFoundError"}
            THEN <<[level |-> "warning", relpath |-> e.relpath,
                    because |-> e.stat.raises]>> \o log(Tail(es))
            ELSE IF e.stat.raises = "OSError"
            THEN <<[level |-> "error", relpath |-> e.relpath,
                    because |-> e.stat.raises]>> \o log(Tail(es))
            ELSE IF ~Valid(e.stat)
            THEN <<[level |-> "warning", relpath |-> e.relpath,
                    because |-> "invalid id"]>> \o log(Tail(es))
            ELSE log(Tail(es))

\* (mutation: the generator of the first call is kept and used again)
ReadDir_exhausted ==
    /\ reads' = IF Fails(entries) THEN "raised"
                ELSE IF reads = "none" THEN "once" ELSE "again"
    /\ earlier' = fsdict
    /\ fsdict' = IF Fails(entries) \/ reads # "none" THEN <<>>
                 ELSE read_dir("c:\\", entries)
    /\ logged' = log(entries)
    /\ UNCHANGED <<entries, catalog, encoding, zipping, stepping, comparing,
                   inflating>>

\* A call of read_dir on the tree; reads = "raised" when the assert failed.
ReadDir ==
    /\ reads' = IF Fails(entries) THEN "raised"
                ELSE IF reads = "none" THEN "once" ELSE "again"
    /\ earlier' = fsdict
    /\ fsdict' = IF Fails(entries) THEN <<>> ELSE read_dir("c:\\", entries)
    /\ logged' = log(entries)
    /\ UNCHANGED <<entries, catalog, encoding, zipping, stepping, comparing,
                   inflating>>

\* Some tree, not yet read.
InitReadDir ==
    /\ StartCatalog({})
    /\ entries \in Trees
    /\ reads = "none"
    /\ fsdict = <<>>
    /\ earlier = <<>>
    /\ logged = <<>>
    /\ NoEncoding
    /\ NoZipping
    /\ NoStepping
    /\ NoComparing
    /\ NoInflating

NextReadDir == ReadDir

SpecReadDir == InitReadDir /\ [][NextReadDir]_vars

\* read_dir has returned a dict.
Returned == reads \in {"once", "again"}

\* stat returned for e, with a device or inode id of zero.
Degenerate(e) ==
    e.stat.raises = "no" /\ (e.stat.st_dev = 0 \/ e.stat.st_ino = 0)

\* stat returned for e, with ids that are not zero.
Sound(e) == e.stat.raises = "no" /\ e.stat.st_dev > 0 /\ e.stat.st_ino > 0

\* The key and the value under which a sound entry belongs into the dict.
KeyOf(e) == <<e.stat.st_dev - Offset, e.stat.st_ino - Offset>>
ValueOf(e) ==
    <<"c:/", IF e.relpath = "x\\a.txt" THEN "x/a.txt" ELSE e.relpath,
      e.stat.st_size, e.stat.st_mtime_ns>>

\* The path of e is in no value of the dict.
LeftOut(e) ==
    \A k \in DOMAIN fsdict : fsdict[k][2] # ValueOf(e)[2]

\* Every sound entry is in the dict: its key is there, with its own value or
\* with that of another sound entry of the same key.
SoundCollected ==
    \A i \in DOMAIN entries :
        Sound(entries[i]) =>
            /\ KeyOf(entries[i]) \in DOMAIN fsdict
            /\ \E j \in DOMAIN entries :
                /\ Sound(entries[j])
                /\ KeyOf(entries[j]) = KeyOf(entries[i])
                /\ fsdict[KeyOf(entries[i])] = ValueOf(entries[j])

\* C21: read_dir returns no key that stands for a device or inode id of zero;
\* an entry with such an id is left out and logged with a warning, and the
\* entries with sound ids are in the dict all the same.
C21_DegenerateSkipped ==
    Returned =>
        /\ \A k \in DOMAIN fsdict : k[1] + Offset # 0 /\ k[2] + Offset # 0
        /\ \A i \in DOMAIN entries :
            Degenerate(entries[i]) =>
                /\ LeftOut(entries[i])
                /\ \E l \in DOMAIN logged :
                    logged[l] = [level |-> "warning",
                                 relpath |-> entries[i].relpath,
                                 because |-> "invalid id"]
        /\ (\E i \in DOMAIN entries : Degenerate(entries[i])) => SoundCollected

\* A tree of an entry with inode id zero and, after it, a sound entry: the
\* dict holds the second alone.
C21_Witness ==
    /\ Returned
    /\ Len(entries) = 2
    /\ entries[1].stat.raises = "no" /\ entries[1].stat.st_ino = 0
    /\ entries[1].stat.st_dev = 1
    /\ Sound(entries[2])
    /\ DOMAIN fsdict = {KeyOf(entries[2])}

\* C22: an entry whose stat raises PermissionError, FileNotFoundError or
\* another OSError does not end the call: it is left out and logged (the
\* first two with a warning, OSError as an error), and the entries with sound
\* ids are in the dict all the same.
C22_StatErrorSkipped ==
    (\E i \in DOMAIN entries : entries[i].stat.raises # "no") =>
        /\ Returned \/ reads = "none"
        /\ Returned =>
            /\ \A i \in DOMAIN entries :
                entries[i].stat.raises # "no" =>
                    /\ LeftOut(entries[i])
                    /\ \E l \in DOMAIN logged :
                        logged[l] =
                            [level |-> IF entries[i].stat.raises = "OSError"
                                       THEN "error" ELSE "warning",
                             relpath |-> entries[i].relpath,
                             because |-> entries[i].stat.raises]
            /\ SoundCollected

\* A tree of an entry whose stat raises and, after it, a sound entry: the
\* dict holds the second alone.
C22_Witness ==
    /\ Returned
    /\ Len(entries) = 2
    /\ entries[1].stat.raises = "OSError"
    /\ Sound(entries[2])
    /\ DOMAIN fsdict = {KeyOf(entries[2])}
    /\ Len(logged) = 1

Unsigned == 0..(2 ^ Width - 1)

\* read_dir encodes the two values for the table.
Encode ==
    /\ stored = <<>>
    /\ stored' = <<unsigned_to_signed_int_64(reported[1]),
                   unsigned_to_signed_int_64(reported[2])>>
    /\ UNCHANGED <<reported, exported, catalog, reader, zipping, stepping,
                   comparing, inflating>>

\* dict_to_csv decodes the two values of the table.
Export ==
    /\ stored # <<>>
    /\ exported = <<>>
    /\ exported' = <<signed_to_unsigned_int_64(stored[1]),
                     signed_to_unsigned_int_64(stored[2])>>
    /\ UNCHANGED <<reported, stored, catalog, reader, zipping, stepping,
                   comparing, inflating>>

\* Any two unsigned values.
InitEncode ==
    /\ StartCatalog({})
    /\ NoReader
    /\ reported \in Unsigned \X Unsigned
    /\ stored = <<>>
    /\ exported = <<>>
    /\ NoZipping
    /\ NoStepping
    /\ NoComparing
    /\ NoInflating

NextEncode == Encode \/ Export

SpecEncode == InitEncode /\ [][NextEncode]_vars

\* C28: what dict_to_csv writes for a device or inode id is the unsigned
\* value the file system reported: signed_to_unsigned_int_64 undoes
\* unsigned_to_signed_int_64 for every unsigned value.
C28_ExportRestoresIds ==
    exported # <<>> => exported = reported

\* The largest and the smallest unsigned value have been written back.
C28_Witness ==
    /\ reported = <<2 ^ Width - 1, 0>>
    /\ exported = <<2 ^ Width - 1, 0>>
    /\ stored # reported

\* C29: every unsigned value is encoded into the signed range, so the assert
\* of read_dir holds for it; different values get different encodings, and
\* the smaller value the smaller encoding.
C29_EncodingInRangeAndMonotone ==
    stored # <<>> =>
        /\ \A i \in {1, 2} :
            /\ -(2 ^ (Width - 1)) <= stored[i]
            /\ stored[i] <= 2 ^ (Width - 1) - 1
            /\ is_signed_int_64(stored[i])
        /\ reported[1] # reported[2] => stored[1] # stored[2]
        /\ reported[1] < reported[2] => stored[1] < stored[2]

\* The two values next to the middle of the range have been encoded, to the
\* two sides of zero.
C29_Witness ==
    /\ reported = <<2 ^ (Width - 1) - 1, 2 ^ (Width - 1)>>
    /\ stored = <<-1, 0>>

\* ---------------------------------------------------------------- copy_zip
\* Members of the input archive.
MaxMembers == 2
\* Length of a member's content.
MaxBytes == 3

\* Most per-action options given on one command line of compare.py.
MaxOptions == 1

\* Most keys on the two sides of a tree comparison.
MaxKeys == 2

\* Most bytes fed to one DummyDecompress object.
MaxFed == 4

\* Largest max_length of a decompress call and length of a flush call.
MaxLength == 2

\* Compression methods of zipfile: ZIP_STORED, ZIP_DEFLATED, ZIP_BZIP2.
Methods == {"stored", "deflated", "bzip2"}

\* The contents of a member: up to MaxBytes bytes, all of them 1.
Contents == {[i \in 1..n |-> 1] : n \in 0..MaxBytes}

\* The first byte of a compressed stream, by method.
Magic(method) == IF method = "deflated" THEN 8 ELSE 12

\* The codecs of zlib and bz2: a stream of a header byte and a run length,
\* shorter than a long content and longer than a short one. Stored members
\* hold the content itself.
compress(method, data) ==
    IF method = "stored" THEN data ELSE <<Magic(method), Len(data)>>

decompress(method, data) ==
    IF method = "stored"
    THEN data
    ELSE IF Len(data) = 2 /\ data[1] = Magic(method)
         THEN [i \in 1..data[2] |-> 1]
         ELSE <<>>

\* zlib.crc32, as a number that tells the contents apart.
crc32(data) == (31 * Len(data) + 7) % 251

\* A member as zipfile writes it for a file name, a method and a content.
Member(name, method, content, extra) ==
    [filename |-> name, compress_type |-> method,
     data |-> compress(method, content), CRC |-> crc32(content),
     file_size |-> Len(content),
     compress_size |-> Len(compress(method, content)),
     extra |-> extra, comment |-> <<7>>]

MemberNames == <<"a", "b", "c", "d">>

\* The archives of up to most well-formed members.
Archives(most) ==
    UNION {{[i \in 1..n |->
               Member(MemberNames[i], m[i][1], m[i][2], m[i][3])] :
               m \in [1..n -> Methods \X Contents \X {<<>>, <<9>>}]} :
           n \in 0..most}

Take(seq, n) == [i \in 1..(IF n < Len(seq) THEN n ELSE Len(seq)) |-> seq[i]]

\* While copy_zip runs, zipfile.zlib is dummy_zlib: DummyCompress.compress
\* and DummyDecompress.decompress return their input. bz2 is not replaced.
patched_compress(method, data) ==
    IF method = "deflated" THEN data ELSE compress(method, data)

patched_decompress(method, data) ==
    IF method = "deflated" THEN data ELSE decompress(method, data)

\* What f_in yields: info.file_size has been set to info.compress_size, and
\* ZipExtFile returns no more than file_size bytes of what it decompresses.
ReadMember(info) ==
    Take(patched_decompress(info.compress_type, info.data), info.compress_size)

\* The member f_out writes for info: the bytes copied through the compressor
\* of its method, with _crc and _file_size set to those of the input.
CopyMember(info, ex, co) ==
    LET written == patched_compress(info.compress_type, ReadMember(info))
    IN [filename |-> info.filename, compress_type |-> info.compress_type,
        data |-> written, CRC |-> info.CRC, file_size |-> info.file_size,
        compress_size |-> IF info.compress_type = "stored"
                          THEN info.file_size ELSE Len(written),
        extra |-> IF ex THEN info.extra ELSE <<>>,
        comment |-> IF co THEN info.comment ELSE <<>>]

\* copy_zip(path_in, path_out, extras, comments): a member per member of the
\* infolist, in its order.
copy_zip(archive, ex, co) ==
    [i \in DOMAIN archive |-> CopyMember(archive[i], ex, co)]

\* ZipFile.testzip reads a member with the real codecs and checks length and
\* CRC against the header.
BadMember(info) ==
    LET content == decompress(info.compress_type,
                              Take(info.data, info.compress_size))
    IN \/ Len(content) # info.file_size
       \/ crc32(content) # info.CRC

testzip(archive) ==
    IF \E i \in DOMAIN archive : BadMember(archive[i])
    THEN archive[CHOOSE i \in DOMAIN archive :
                     /\ BadMember(archive[i])
                     /\ \A j \in 1..(i - 1) : ~BadMember(archive[j])].filename
    ELSE "None"

\* _zlib = zipfile.zlib; zipfile.zlib = dummy_zlib.
patch(binding) == [_zlib |-> binding, zlib |-> "dummy_zlib"]

finally_returned(frame, how) ==
    IF how = "returned" THEN frame._zlib ELSE frame.zlib

\* finally: zipfile.zlib = _zlib, however the try block was left.
finally(frame, how) == frame._zlib

\* A call of copy_zip: it returns with every member written, or an error of
\* reading or writing leaves the try block after some of them.
CopyZip ==
    /\ zipped = "start"
    /\ \/ /\ zip_out' = copy_zip(zip_in, extras, comments)
          /\ zipped' = "copied"
          /\ zlib' = finally(patch(zlib), "returned")
       \/ /\ \E n \in 0 .. Len(zip_in) :
                zip_out' = SubSeq(copy_zip(zip_in, extras, comments), 1, n)
          /\ zipped' = "raised"
          /\ zlib' = finally(patch(zlib), "raised")
    /\ UNCHANGED <<zip_in, extras, comments, bad, catalog, reader, encoding,
                   stepping, comparing, inflating>>

TestZip ==
    /\ zipped = "copied"
    /\ bad' = testzip(zip_out)
    /\ zipped' = "tested"
    /\ UNCHANGED <<zip_in, extras, comments, zip_out, zlib, catalog, reader,
                   encoding, stepping, comparing, inflating>>

\* Any archive that passes testzip, any choice of extras and comments.
InitZip ==
    /\ StartCatalog({})
    /\ NoReader
    /\ NoEncoding
    /\ NoStepping
    /\ NoComparing
    /\ NoInflating
    /\ zip_in \in Archives(MaxMembers)
    /\ extras \in BOOLEAN
    /\ comments \in BOOLEAN
    /\ zip_out = <<>>
    /\ zipped = "start"
    /\ bad = "None"
    /\ zlib \in {"zlib", "None"}

NextZip == CopyZip \/ TestZip

SpecZip == InitZip /\ [][NextZip]_vars

\* C30 as stated: when copy_zip has returned, the output has a member for every member of the input, in
\* its order, with the input's stored bytes, CRC and uncompressed size, and
\* testzip finds no bad member in it.
C30_CopyKeepsMembers ==
    zipped \in {"copied", "tested"} =>
        /\ Len(zip_out) = Len(zip_in)
        /\ \A i \in DOMAIN zip_in :
            /\ zip_out[i].filename = zip_in[i].filename
            /\ zip_out[i].data = zip_in[i].data
            /\ zip_out[i].CRC = zip_in[i].CRC
            /\ zip_out[i].file_size = zip_in[i].file_size
        /\ zipped = "tested" => bad = "None"

\* ---------------------------------------------------------------- batch by batch
\* The state of the catalog run that the runs over single roots leave alone.
locals == <<case_insensitive, drives, pc, root, fs, db, guard, calls, before,
            ops, deferred, owner, origin>>

\* The tuples handed to the k-th batch_executer call of compare.
tuples(k, b) ==
    CASE k = 1 -> b.new
      [] k = 2 -> b.deleted
      [] k = 3 -> b.unmodified
      [] OTHER -> b.modified

\* The batches with the tuples of the k-th call cut to its first n.
Cut(b, k, n) ==
    CASE k = 1 -> [b EXCEPT !.new = SubSeq(@, 1, n)]
      [] k = 2 -> [b EXCEPT !.deleted = SubSeq(@, 1, n)]
      [] k = 3 -> [b EXCEPT !.unmodified = SubSeq(@, 1, n)]
      [] OTHER -> [b EXCEPT !.modified = SubSeq(@, 1, n)]

\* (mutation: the fourth call inserts the modified rows and the fifth retires
\* the old ones)
execute_insert_first(tbl, k, f, b, t) ==
    CASE k = 1 -> new_nodes_query(tbl, b.new, f, t)
      [] k = 2 -> deleted_nodes_query(tbl, b.deleted)
      [] k = 3 -> unmodified_nodes_query(tbl, b.unmodified, t)
      [] k = 4 -> new_nodes_query(tbl, b.modified, f, t)
      [] OTHER -> deleted_nodes_query(tbl, b.modified)

\* The table after the k-th batch_executer call of compare on tbl.
execute(tbl, k, f, b, t) ==
    CASE k = 1 -> new_nodes_query(tbl, b.new, f, t)
      [] k = 2 -> deleted_nodes_query(tbl, b.deleted)
      [] k = 3 -> unmodified_nodes_query(tbl, b.unmodified, t)
      [] k = 4 -> deleted_nodes_query(tbl, b.modified)
      [] OTHER -> new_nodes_query(tbl, b.modified, f, t)

\* The rows the statement of the k-th call changes in tbl (cursor.rowcount):
\* a row per tuple of an INSERT, the rows an UPDATE selects.
rowcount(tbl, k, b) ==
    IF k \in {1, 5}
    THEN Len(tuples(k, b))
    ELSE Cardinality({i \in DOMAIN tbl :
                        /\ FileIDOf(tbl[i]) \in Range(tuples(k, b))
                        /\ tbl[i].deleted = 0})

\* What batch_executer returns, which compare prints as entries. It is the
\* library's count of what it executed: the tuples it was handed, or the rows
\* the cursor reports as changed.
Returns(tbl, k, b) == {Len(tuples(k, b)), rowcount(tbl, k, b)}

\* The line compare prints after its k-th call (none after the fourth).
Line(k) ==
    CASE k = 1 -> "Added"
      [] k = 2 -> "Deleted"
      [] k = 3 -> "unmodified"
      [] OTHER -> "modified"

Finished == {"done", "raised", "failed", "stopped"}

\* The rows the table can hold: MaxRecords for one root and a row more for
\* each further one.
Room == MaxRecords + Cardinality(drives) - 1

\* read_dir and read_database of a run over r, and the sets compare makes of
\* them; g is what is_open_for_write will answer. As in Pass, the statements
\* of the run are taken to fall into one second t of CURRENT_TIMESTAMP.
Begin(r) ==
    /\ proc[r].pc = "idle"
    /\ \E f \in Snapshots(r), t \in {now, now + 1} :
        LET d == read_database(files, case_insensitive, r)
        IN \E g \in [Candidates(f, d) -> GuardOutcomes],
              ord \in Orderings(DOMAIN f \cup DOMAIN d) :
            /\ t <= MaxTime
            /\ now' = t
            /\ proc' = [proc EXCEPT ![r] =
                        [@ EXCEPT !.pc = "run", !.step = 1, !.f = f, !.d = d,
                                  !.g = g, !.b = Batches(f, d, g, ord),
                                  !.t = t]]
    /\ table0' = IF \A q \in drives : proc[q].pc = "idle" THEN files ELSE table0
    /\ UNCHANGED <<files, locals, reader, encoding, zipping, comparing, inflating>>

\* (mutation: the error of a call is kept for later and the next call of
\* compare is still made)
StoreError_kept(r) ==
    LET p == proc[r]
    IN /\ p.pc = "run"
       /\ \E n \in 0..Len(tuples(p.step, p.b)) :
            LET partly == execute(files, p.step, p.f, Cut(p.b, p.step, n), p.t)
            IN /\ files' = IF p.step < 5
                           THEN execute(partly, p.step + 1, p.f, p.b, p.t)
                           ELSE partly
               /\ proc' = [proc EXCEPT ![r] =
                    [p EXCEPT !.pc = "failed",
                              !.orphaned = IF p.step = 5 /\ n = 0
                                           THEN Range(p.b.modified) ELSE {}]]
       /\ UNCHANGED <<now, table0, locals, reader, encoding, zipping, comparing, inflating>>

\* The next batch_executer call of the run over r and the print after it.
\* updated_nodes is called after the second: an error of is_open_for_write
\* that it does not catch ends the run.
Step(r) ==
    LET p == proc[r]
    IN /\ p.pc = "run"
       /\ \E n \in Returns(files, p.step, p.b) :
            /\ Len(files) + (IF p.step \in {1, 5} THEN Len(tuples(p.step, p.b))
                             ELSE 0) <= Room
            /\ files' = execute(files, p.step, p.f, p.b, p.t)
            /\ proc' = [proc EXCEPT ![r] =
                 [p EXCEPT
                    !.step = p.step + 1,
                    !.printed = IF p.step = 4 THEN @
                                ELSE Append(@, [line |-> Line(p.step),
                                                entries |-> n]),
                    !.pc = IF p.step = 5 THEN "done"
                           ELSE IF p.step = 2 /\ Raises(p.f, p.d, p.g)
                                THEN "raised" ELSE "run",
                    !.orphaned = IF p.step = 2 /\ Raises(p.f, p.d, p.g)
                                 THEN {} ELSE @]]
       /\ UNCHANGED <<now, table0, locals, reader, encoding, zipping, comparing, inflating>>

\* The next batch_executer call raises sqlite3.Error after n of its tuples
\* are in the table. Nothing in compare or in the loop over the drives
\* catches it: the program ends with the traceback.
StoreError(r) ==
    LET p == proc[r]
    IN /\ p.pc = "run"
       /\ \E n \in 0..Len(tuples(p.step, p.b)) :
            /\ Len(files) + (IF p.step \in {1, 5} THEN n ELSE 0) <= Room
            /\ files' = execute(files, p.step, p.f, Cut(p.b, p.step, n), p.t)
            /\ proc' = [proc EXCEPT ![r] =
                 [p EXCEPT !.pc = "failed",
                           !.orphaned = IF p.step = 5 /\ n = 0
                                        THEN Range(p.b.modified) ELSE {}]]
       /\ UNCHANGED <<now, table0, locals, reader, encoding, zipping, comparing, inflating>>

\* (mutation: the statements of a run are one transaction, undone when the
\* process is killed)
Crash_rollback(r) ==
    /\ proc[r].pc = "run"
    /\ files' = table0
    /\ proc' = [proc EXCEPT ![r] =
                  [@ EXCEPT !.pc = "stopped",
                            !.orphaned = IF proc[r].step = 5
                                         THEN Range(proc[r].b.modified)
                                         ELSE {}]]
    /\ UNCHANGED <<now, table0, locals, reader, encoding, zipping, comparing, inflating>>

\* The process is killed between two batch_executer calls. The connection
\* has isolation_level None: what the calls before have written stays.
Crash(r) ==
    /\ proc[r].pc = "run"
    /\ proc' = [proc EXCEPT ![r] =
                  [@ EXCEPT !.pc = "stopped",
                            !.orphaned = IF proc[r].step = 5
                                         THEN Range(proc[r].b.modified)
                                         ELSE {}]]
    /\ UNCHANGED <<files, now, table0, locals, reader, encoding, zipping, comparing, inflating>>

\* The runs have ended and the program is started again. What a run that
\* was stopped before its last call has left is remembered for the next.
Again ==
    /\ \A r \in drives : proc[r].pc \in Finished
    /\ proc' = [r \in Roots |->
                  IF r \in drives
                  THEN [Idle EXCEPT !.orphaned =
                           IF proc[r].pc = "done" THEN {} ELSE proc[r].orphaned]
                  ELSE proc[r]]
    /\ UNCHANGED <<files, now, table0, locals, reader, encoding, zipping, comparing, inflating>>

\* catalog.py --drives c:/, run again and again; a run can fail in the store
\* or be killed.
InitCrash ==
    /\ StartCatalog({"c:/"})
    /\ Aside

NextCrash ==
    \/ \E r \in drives : Begin(r)
    \/ \E r \in drives : Step(r)
    \/ \E r \in drives : StoreError(r)
    \/ \E r \in drives : Crash(r)
    \/ Again

SpecCrash == InitCrash /\ [][NextCrash]_vars

\* The table after a first run of catalog.py --drives c:/ d:/: every file
\* found is new.
FirstRun(fc, fd, ord, t) ==
    LET created == compare(<<>>, fc, Batches(fc, <<>>, <<>>, ord), t)
        dd == read_database(created, case_insensitive, "d:/")
    IN compare(created, fd, Batches(fd, dd, <<>>, ord), t)

Seed ==
    /\ files = <<>>
    /\ \A r \in drives : proc[r].pc = "idle"
    /\ \E fc \in Snapshots("c:/"), fd \in Snapshots("d:/"),
          ord \in Orderings(FileIDs) :
        /\ Len(FirstRun(fc, fd, ord, now)) \in 1..MaxRecords
        /\ files' = FirstRun(fc, fd, ord, now)
    /\ UNCHANGED <<now, locals, aside>>

\* After it, catalog.py --drives c:/ and catalog.py --drives d:/ at the same
\* time on the one database.
InitParallel ==
    /\ StartCatalog(Roots)
    /\ Aside

NextParallel ==
    \/ Seed
    \/ \E r \in drives : Begin(r)
    \/ \E r \in drives : Step(r)

SpecParallel == InitParallel /\ [][NextParallel]_vars

\* The table after the first k batch_executer calls of compare on tbl.
Applied(tbl, k, f, b, t) ==
    IF k = 0 THEN tbl ELSE compare_steps(tbl, f, b, t)[k]

\* The lines compare has printed when its k-th call begins.
PrintedBefore(k) == IF k = 5 THEN 3 ELSE k - 1

\* C24: when a batch_executer call of a run raises a store error, the run
\* has ended in that error: the table holds what the calls before it wrote
\* and at most a part of the failing batch, nothing of a later batch, and
\* the lines printed are those of the calls before, without the last line
\* of a run that got through.
C24_StoreErrorEndsRun ==
    \A r \in drives :
        LET p == proc[r]
        IN p.pc = "failed" =>
            /\ \E n \in 0..Len(tuples(p.step, p.b)) :
                files = execute(Applied(table0, p.step - 1, p.f, p.b, p.t),
                                p.step, p.f, Cut(p.b, p.step, n), p.t)
            /\ Len(p.printed) = PrintedBefore(p.step)
            /\ \A i \in DOMAIN p.printed : p.printed[i].line # "modified"

\* A run failed in its fourth call with a batch left for the fifth.
C24_Witness ==
    \E r \in drives :
        /\ proc[r].pc = "failed"
        /\ proc[r].step = 4
        /\ proc[r].b.modified # <<>>

\* C25: when a run stops after the MarkDeleted call for the modified
\* identities and before their INSERT, each of them has no current record;
\* and when the next run gets through with the file still there, the
\* identity is in its batch of new nodes and has one current record, with
\* the attributes of the snapshot.
C25_StoppedBetweenPairedBatches ==
    \A r \in drives :
        LET p == proc[r]
        IN /\ p.pc \in {"stopped", "failed"} =>
                \A id \in p.orphaned : CurrentOf(files, id) = {}
           /\ p.pc = "done" =>
                \A id \in p.orphaned \cap DOMAIN p.f :
                    /\ id \in Range(p.b.new)
                    /\ Cardinality(CurrentOf(files, id)) = 1
                    /\ \A i \in CurrentOf(files, id) : InfoOf(files[i]) = p.f[id]

\* The run after one that stopped between the paired calls got through and
\* found the file.
C25_Witness ==
    \E r \in drives :
        /\ proc[r].pc = "done"
        /\ proc[r].orphaned \cap DOMAIN proc[r].f # {}

RunOver(tbl, r, f, g, t) ==
    LET d == read_database(tbl, case_insensitive, r)
        ord == CHOOSE o \in Orderings(DOMAIN f \cup DOMAIN d) : TRUE
    IN compare(tbl, f, Batches(f, d, g, ord), t)

\* Answers of is_open_for_write a run over r on tbl can get that agree with
\* the answers g the run has got, and let the run get through.
Answers(tbl, r, f, g) ==
    LET d == read_database(tbl, case_insensitive, r)
    IN {h \in [Candidates(f, d) -> GuardOutcomes] :
            /\ ~Raises(f, d, h)
            /\ \A id \in DOMAIN h \cap DOMAIN g : h[id] = g[id]}

\* The current records of every root in files are those that the run over
\* first and then the run over second leave, started on table0.
SameAsSerial(first, second) ==
    \E g1 \in Answers(table0, first, proc[first].f, proc[first].g) :
        LET t1 == RunOver(table0, first, proc[first].f, g1, proc[first].t)
        IN \E g2 \in Answers(t1, second, proc[second].f, proc[second].g) :
            LET t2 == RunOver(t1, second, proc[second].f, g2, proc[second].t)
            IN \A r \in Roots :
                read_database(files, case_insensitive, r)
                    = read_database(t2, case_insensitive, r)

\* No identity has two current records under one root.
OneCurrentPerRoot(tbl) ==
    \A i, j \in DOMAIN tbl :
        (/\ FileIDOf(tbl[i]) = FileIDOf(tbl[j])
         /\ tbl[i].root = tbl[j].root
         /\ tbl[i].deleted = 0
         /\ tbl[j].deleted = 0) => i = j

\* C26 as stated: while the calls of a run over c:/ and of a run over d:/
\* interleave, no identity has two current records under one root; and when
\* both have got through, the current records of each root are those of the
\* two runs made one after the other, in one of the two orders.
C26_ParallelRootsSerial ==
    /\ OneCurrentPerRoot(files)
    /\ (\A r \in Roots : proc[r].pc = "done") =>
           \/ SameAsSerial("c:/", "d:/")
           \/ SameAsSerial("d:/", "c:/")

\* ---------------------------------------------------------------- convergence
\* The (identity, attributes) of the non-deleted rows of tbl under root r.
CurrentRecords(tbl, r) ==
    {<<FileIDOf(tbl[i]), InfoOf(tbl[i])>> :
        i \in {j \in DOMAIN tbl :
                 /\ tbl[j].deleted = 0
                 /\ RootMatch(case_insensitive, tbl[j].root, r)}}

\* C31: after a pass that got through, every identity it did not skip has a
\* non-deleted record under the root exactly when it is in the snapshot, and
\* then with the snapshot's attributes and no other; so with nothing skipped
\* the non-deleted records of the root are the snapshot. A skipped identity
\* keeps the record the view had.
C31_PassConverges ==
    pc = "done" =>
        /\ \A id \in FileIDs \ Skipped(guard) :
            {rec \in CurrentRecords(files, root) : rec[1] = id}
                = IF id \in DOMAIN fs THEN {<<id, fs[id]>>} ELSE {}
        /\ Skipped(guard) = {} =>
            CurrentRecords(files, root) = {<<id, fs[id]>> : id \in DOMAIN fs}
        /\ \A id \in Skipped(guard) :
            {rec \in CurrentRecords(files, root) : rec[1] = id}
                = {<<id, db[id]>>}

\* A pass with nothing skipped has inserted, retired and replaced, or a pass
\* has skipped an identity whose file differs from its record.
C31_Witness ==
    /\ pc = "done"
    /\ \/ /\ Skipped(guard) = {}
          /\ ops.modified # <<>>
       \/ \E id \in Skipped(guard) : fs[id] # db[id]

\* C32: a row that was marked deleted when a pass began is the same row
\* after the pass, end_date included, whatever the pass does with its
\* identity.
C32_RetiredFrozen ==
    pc \in {"done", "raised"} =>
        /\ Len(before) <= Len(files)
        /\ \A i \in DOMAIN before :
            before[i].deleted = 1 => files[i] = before[i]

\* A pass has touched the current record of an identity that also has a
\* retired record, at a later second than the end of the retired one.
C32_Witness ==
    /\ pc = "done"
    /\ \E i \in DOMAIN before :
        /\ before[i].deleted = 1
        /\ FileIDOf(before[i]) \in TouchOps
        /\ before[i].end_date < now

\* C33: between any two batch_executer calls of a run, and after a run that
\* was stopped or failed after any of them, no identity has two non-deleted
\* records under one root.
C33_OneCurrentBetweenBatches ==
    \A r \in drives :
        proc[r].pc \in {"run", "stopped", "failed", "raised"} =>
            OneCurrentPerRoot(files)

\* A run has inserted a new record and retired a modified one, and is
\* stopped before the fifth call.
C33_Witness ==
    \E r \in drives :
        /\ proc[r].pc = "stopped"
        /\ proc[r].step = 5
        /\ proc[r].b.new # <<>>
        /\ proc[r].b.modified # <<>>

\* ---------------------------------------------------------------- letter case
\* The program run with --drives c:/ and with --drives C:/ on a platform
\* where FilesDB compares roots with COLLATE NOCASE: read_dir keeps the
\* letters of the path it is given.
InitCase == Start({"c:/", "C:/"})

SpecCase == InitCase /\ [][Next]_vars

\* C34 as stated: for every identity in the snapshot and in the view of a
\* pass, the record of the view has the root of the snapshot entry, and an
\* identity in the batch of the modified differs from its record in path,
\* size or mtime.
C34_RootNeverDiffers ==
    pc = "done" =>
        /\ \A id \in Common(fs, db) : db[id][1] = fs[id][1]
        /\ \A id \in Range(ops.modified) :
            <<fs[id][2], fs[id][3], fs[id][4]>>
                # <<db[id][2], db[id][3], db[id][4]>>

\* ---------------------------------------------------------------- hard links
\* One iteration of the loop over the drives for c:\ with the dict that
\* read_dir makes of the tree: read_database, read_dir, compare. An
\* AssertionError of read_dir ends the program.
Iteration ==
    /\ pc = "loop"
    /\ IF Fails(entries)
       THEN /\ pc' = "raised"
            /\ UNCHANGED <<files, now, root, fs, db, guard, calls, before, ops>>
       ELSE \E t \in {now, now + 1} :
            LET f == read_dir("c:\\", entries)
                d == read_database(files, case_insensitive, "c:/")
            IN \E g \in [Candidates(f, d) -> GuardOutcomes],
                  ord \in Orderings(DOMAIN f \cup DOMAIN d) :
                LET b == Batches(f, d, g, ord)
                IN /\ t <= MaxTime
                   /\ Len(files) + Len(b.new) + Len(b.modified) <= MaxRecords
                   /\ files' = compare(files, f, b, t)
                   /\ now' = t
                   /\ pc' = IF Raises(f, d, g) THEN "raised" ELSE "done"
                   /\ root' = "c:/"
                   /\ fs' = f
                   /\ db' = d
                   /\ guard' = g
                   /\ calls' = checked(f, d, ord)
                   /\ before' = files
                   /\ ops' = b
    /\ UNCHANGED <<case_insensitive, drives, deferred, owner, origin, aside>>

\* The program is run again and again over a tree that does not change.
NextLinks == Iteration \/ Return

SpecLinks == InitReadDir /\ [][NextLinks]_vars

\* Entries i and j of the tree are two paths of one file.
Linked(i, j) ==
    /\ i # j
    /\ Sound(entries[i])
    /\ Sound(entries[j])
    /\ KeyOf(entries[i]) = KeyOf(entries[j])

\* C35: when two paths of the tree have one (device, inode), the snapshot
\* of a pass has one entry for it, with one of its paths; the first pass
\* inserts it and every later pass over the unchanged tree has it in the
\* batch of the unmodified and in no other.
C35_HardLinksTouchedOnly ==
    pc = "done" =>
        \A i, j \in DOMAIN entries :
            Linked(i, j) =>
                LET id == KeyOf(entries[i])
                IN /\ id \in DOMAIN fs
                   /\ \E k \in DOMAIN entries :
                        /\ Sound(entries[k])
                        /\ KeyOf(entries[k]) = id
                        /\ fs[id] = ValueOf(entries[k])
                   /\ id \notin MarkDeletedOps
                   /\ IF before = <<>>
                      THEN id \in Range(ops.new)
                      ELSE id \in TouchOps /\ id \notin InsertOps

\* A later pass over a tree with two paths of one file, which differ in what
\* stat reports of them.
C35_Witness ==
    /\ pc = "done"
    /\ before # <<>>
    /\ \E i, j \in DOMAIN entries :
        /\ Linked(i, j)
        /\ ValueOf(entries[i]) # ValueOf(entries[j])

\* ---------------------------------------------------------------- find_type
\* File names are sequences of pieces: a piece is "." or a run of other
\* characters.
Stems == {<<>>, <<"x">>, <<"a", ".", "b">>}

Extensions == {"torrent", "rar", "cbr", "zip", "cbz", "xml", "dat", "txt"}

Names == (Stems \ {<<>>}) \cup {st \o <<".", ext>> : st \in Stems, ext \in Extensions}

\* What can be at the path: a directory, a file, or neither.
Paths == [kind : {"dir", "file", "neither"}, name : Names]

\* str.rfind("."), counted from 1; 0 when there is none.
rfind(name) ==
    IF \E i \in DOMAIN name : name[i] = "."
    THEN CHOOSE i \in DOMAIN name :
            /\ name[i] = "."
            /\ \A j \in DOMAIN name : name[j] = "." => j <= i
    ELSE 0

\* PurePath.suffix: the name from its last dot on, when that dot is neither
\* the first nor the last character.
suffix(name) ==
    IF 1 < rfind(name) /\ rfind(name) < Len(name)
    THEN SubSeq(name, rfind(name), Len(name))
    ELSE <<>>

find_type(p) ==
    IF p.kind = "dir"
    THEN "iter_dir"
    ELSE IF p.kind = "file" /\ suffix(p.name) = <<".", "torrent">>
    THEN "iter_torrent"
    ELSE IF p.kind = "file" /\ suffix(p.name) \in {<<"rar">>, <<"cbr">>}
    THEN "iter_rar"
    ELSE IF p.kind = "file" /\ suffix(p.name) \in {<<"zip">>, <<"cbz">>}
    THEN "iter_zip"
    ELSE IF p.kind = "file" /\ suffix(p.name) = <<".", "xml">>
    THEN "iter_archiveorg_xml"
    ELSE IF p.kind = "file" /\ suffix(p.name) = <<".", "dat">>
    THEN "iter_gamedat_xml"
    ELSE "RuntimeError"

\* --left-type auto: find_type(args.left_paths[0]).
FindType ==
    /\ iter_func = ""
    /\ iter_func' = find_type(first_path)
    /\ UNCHANGED <<first_path, args, action_names, left, right, hasher,
                   dispatched, catalog, reader, encoding, zipping, stepping,
                   inflating>>

InitFindType ==
    /\ StartCatalog({})
    /\ NoReader
    /\ NoEncoding
    /\ NoZipping
    /\ NoStepping
    /\ NoInflating
    /\ first_path \in Paths
    /\ iter_func = ""
    /\ args = <<>>
    /\ action_names = <<>>
    /\ left = <<>>
    /\ right = <<>>
    /\ hasher = FALSE
    /\ dispatched = <<>>

NextFindType == FindType

SpecFindType == InitFindType /\ [][NextFindType]_vars

\* The last piece of the name of a file that ends in a dot and a piece.
Ending(p) ==
    IF p.kind = "file" /\ suffix(p.name) # <<>>
    THEN p.name[Len(p.name)]
    ELSE ""

\* C38 as stated: find_type returns the directory reader for a directory
\* and, for a file, the reader of its suffix: .torrent, .rar or .cbr, .zip
\* or .cbz, .xml, .dat; it raises for nothing else than another suffix (or
\* what is neither file nor directory).
C38_ReaderBySuffix ==
    iter_func # "" =>
        iter_func =
            IF first_path.kind = "dir" THEN "iter_dir"
            ELSE CASE Ending(first_path) = "torrent" -> "iter_torrent"
                   [] Ending(first_path) \in {"rar", "cbr"} -> "iter_rar"
                   [] Ending(first_path) \in {"zip", "cbz"} -> "iter_zip"
                   [] Ending(first_path) = "xml" -> "iter_archiveorg_xml"
                   [] Ending(first_path) = "dat" -> "iter_gamedat_xml"
                   [] OTHER -> "RuntimeError"

\* ----------------------------------------------------- action_names_from_args
ACTIONS_BOTH ==
    <<"different_type", "directory", "different_size", "empty", "missing_hash",
      "same_size_no_hash", "same_hash", "different_hash">>

\* ACTIONS of compare.py (the word itself is reserved).
Actions == {"ignore", "print", "copy", "trash"}

\* An action name is a classification and what f"{action}_left" or
\* f"{action}_right" appends to it.
get_all_actions ==
    {<<c, "">> : c \in {"left_only", "right_only", "same_file"}}
        \cup {<<ACTIONS_BOTH[i], "">> : i \in DOMAIN ACTIONS_BOTH}
        \cup {<<ACTIONS_BOTH[i], side>> :
                i \in DOMAIN ACTIONS_BOTH, side \in {"_left", "_right"}}

PRESETS ==
    [p \in {"print-different"} |->
        [c \in {<<"left_only", "">>, <<"right_only", "">>,
                <<"different_type", "">>, <<"different_size", "">>,
                <<"different_hash", "">>} |-> "print"]]

\* dict.get(a): the value, or None.
get(d, a) == IF a \in DOMAIN d THEN d[a] ELSE "None"

\* The parsed command lines: --preset, --default-action and the per-action
\* options, None when not given.
RECURSIVE Given(_)
Given(n) ==
    IF n = 0
    THEN {[c \in get_all_actions |-> "None"]}
    ELSE Given(n - 1) \cup
            {[o EXCEPT ![c] = v] :
                o \in Given(n - 1), c \in get_all_actions, v \in Actions}

\* With at most n per-action options given.
Args(n) ==
    [preset : DOMAIN PRESETS \cup {"None"},
     default_action : Actions,
     action : Given(n)]

action_names_from_args_default(ar) ==
    [c \in get_all_actions |->
        IF ar.action[c] # "None"
        THEN ar.action[c]
        ELSE IF ar.preset = "None"
        THEN ar.default_action
        ELSE IF get(PRESETS[ar.preset], c) # "None"
        THEN get(PRESETS[ar.preset], c)
        ELSE ar.default_action]

action_names_from_args(ar) ==
    [c \in get_all_actions |->
        IF ar.action[c] # "None"
        THEN ar.action[c]
        ELSE IF ar.preset = "None"
        THEN ar.default_action
        ELSE IF get(PRESETS[ar.preset], c) # "None"
        THEN get(PRESETS[ar.preset], c)
        ELSE "ignore"]

\* main: action_names = action_names_from_args(args).
ActionNames ==
    /\ DOMAIN action_names = {}
    /\ action_names' = action_names_from_args(args)
    /\ UNCHANGED <<first_path, iter_func, args, left, right, hasher,
                   dispatched, catalog, reader, encoding, zipping, stepping,
                   inflating>>

InitActionNames ==
    /\ StartCatalog({})
    /\ NoReader
    /\ NoEncoding
    /\ NoZipping
    /\ NoStepping
    /\ NoInflating
    /\ first_path = <<>>
    /\ iter_func = ""
    /\ args \in Args(MaxOptions)
    /\ action_names = <<>>
    /\ left = <<>>
    /\ right = <<>>
    /\ hasher = FALSE
    /\ dispatched = <<>>

NextActionNames == ActionNames

SpecActionNames == InitActionNames /\ [][NextActionNames]_vars

\* C37: for every action name, the per-action option given on the command
\* line wins; without one a value of the preset wins; with a preset an
\* action the preset does not name is "ignore"; without a preset it is the
\* default action.
C37_OptionThenPresetThenDefault ==
    DOMAIN action_names # {} =>
        \A c \in get_all_actions :
            /\ args.action[c] # "None" => action_names[c] = args.action[c]
            /\ args.action[c] = "None" /\ args.preset # "None" =>
                    /\ c \in DOMAIN PRESETS[args.preset] =>
                            action_names[c] = PRESETS[args.preset][c]
                    /\ c \notin DOMAIN PRESETS[args.preset] =>
                            action_names[c] = "ignore"
            /\ args.action[c] = "None" /\ args.preset = "None" =>
                    action_names[c] = args.default_action

\* A preset, a default action other than "ignore" and "print", and one option
\* given for an action the preset names.
C37_Witness ==
    /\ DOMAIN action_names # {}
    /\ args.preset = "print-different"
    /\ args.default_action = "copy"
    /\ args.action[<<"left_only", "">>] = "trash"
    /\ action_names[<<"left_only", "">>] = "trash"
    /\ action_names[<<"right_only", "">>] = "print"
    /\ action_names[<<"same_file", "">>] = "ignore"

\* ---------------------------------------------------------- compare (trees)
\* Keys in their sorted order.
Keys == 1 .. MaxKeys

\* The keys that ignore (^.*\.pyc$) matches.
Pyc == {1}

\* FileProperties of a directory, an empty file and a file of one byte; on
\* the right also a second absolute path.
Props(abspaths) ==
    [isdir : {TRUE}, size : {0}, hash : {""}, abspath : abspaths]
        \cup [isdir : {FALSE}, size : {0}, hash : {""}, abspath : {""}]
        \cup [isdir : {FALSE}, size : {1}, hash : {"", "h1", "h2"},
              abspath : abspaths]

Sides(abspaths) ==
    UNION {[ks -> Props(abspaths)] : ks \in SUBSET Keys}

\* hasher.get(Path(abspath)).
hasher_get(abspath) == IF abspath = "p" THEN "h1" ELSE "h2"

\* os.path.samefile on two absolute paths.
samefile(p, q) == p = q

\* ignore and by in ("relpath", "abspath") and ignore.match(fspath(key)).
ignored(by, key) == by \in {"relpath", "abspath"} /\ key \in Pyc

do_single(type_, key, side) ==
    [type_ |-> type_, call |-> "do_single", side |-> side, key |-> key]

do_both(type_, key) ==
    [type_ |-> type_, call |-> "do_both", side |-> "both", key |-> key]

\* The three calls of a classification of ACTIONS_BOTH.
dispatch(type_, key) ==
    <<do_both(type_, key), do_single(type_, key, "left"),
      do_single(type_, key, "right")>>

\* A side with no hash gets one when the hasher is there and both sides
\* have a hash or an absolute path.
computes(ap, bp, h) ==
    /\ (ap.hash = "" \/ bp.hash = "") /\ h
    /\ (ap.hash # "" \/ ap.abspath # "") /\ (bp.hash # "" \/ bp.abspath # "")

hashed(pr, ap, bp, h) ==
    IF computes(ap, bp, h) /\ pr.hash = ""
    THEN [pr EXCEPT !.hash = hasher_get(pr.abspath)]
    ELSE pr

missing_hash(ap, bp, h, key) ==
    IF (ap.hash = "" \/ bp.hash = "") /\ h /\ ~computes(ap, bp, h)
    THEN dispatch("missing_hash", key)
    ELSE <<>>

\* The body of the loop over the keys of both sides.
compare_both(ap, bp, h, by, key) ==
    IF ignored(by, key)
    THEN <<>>
    ELSE IF ap.abspath # "" /\ bp.abspath # "" /\ samefile(ap.abspath, bp.abspath)
    THEN <<do_both("same_file", key)>>
    ELSE IF ap.isdir # bp.isdir
    THEN dispatch("different_type", key)
    ELSE IF ap.isdir
    THEN dispatch("directory", key)
    ELSE IF ap.size # bp.size
    THEN dispatch("different_size", key)
    ELSE IF ap.size = 0 /\ bp.size = 0
    THEN dispatch("empty", key)
    ELSE missing_hash(ap, bp, h, key) \o
         (IF hashed(ap, ap, bp, h).hash = "" \/ hashed(bp, ap, bp, h).hash = ""
          THEN dispatch("same_size_no_hash", key)
          ELSE IF hashed(ap, ap, bp, h).hash = hashed(bp, ap, bp, h).hash
          THEN dispatch("same_hash", key)
          ELSE dispatch("different_hash", key))

\* The props of a key after the loop: the hashes computed stay in them.
after_compare(x, y, h, by, mine) ==
    [key \in DOMAIN mine |->
        IF /\ key \in DOMAIN x \cap DOMAIN y
           /\ ~ignored(by, key)
           /\ ~(x[key].abspath # "" /\ y[key].abspath # ""
                    /\ samefile(x[key].abspath, y[key].abspath))
           /\ x[key].isdir = y[key].isdir
           /\ ~x[key].isdir
           /\ x[key].size = y[key].size
           /\ x[key].size # 0
        THEN hashed(mine[key], x[key], y[key], h)
        ELSE mine[key]]

\* for key in sorted(ks): the calls of the loop, from the smallest key on.
RECURSIVE for_sorted(_, _, _, _, _, _)
for_sorted(ks, x, y, h, by, kind) ==
    IF ks = {}
    THEN <<>>
    ELSE LET key == CHOOSE k \in ks : \A o \in ks : k <= o
             made ==
                IF kind = "both"
                THEN compare_both(x[key], y[key], h, by, key)
                ELSE IF ignored(by, key)
                THEN <<>>
                ELSE <<do_single(kind, key, IF kind = "left_only"
                                               THEN "left" ELSE "right")>>
         IN  made \o for_sorted(ks \ {key}, x, y, h, by, kind)

compare_trees(x, y, h, by) ==
    for_sorted(DOMAIN x \ DOMAIN y, x, y, h, by, "left_only")
        \o for_sorted(DOMAIN y \ DOMAIN x, x, y, h, by, "right_only")
        \o for_sorted(DOMAIN x \cap DOMAIN y, x, y, h, by, "both")

\* GetActions.__exit__: the action objects are closed.
close == [type_ |-> "close", call |-> "close", side |-> "both", key |-> 0]

\* main: with GetActions(...) as actions: compare(a, b, hasher, actions, ...).
Compare ==
    /\ dispatched = <<>>
    /\ dispatched' = compare_trees(left, right, hasher, args.by) \o <<close>>
    /\ left' = after_compare(left, right, hasher, args.by, left)
    /\ right' = after_compare(left, right, hasher, args.by, right)
    /\ UNCHANGED <<first_path, iter_func, args, action_names, hasher,
                   catalog, reader, encoding, zipping, stepping, inflating>>

InitCompare ==
    /\ StartCatalog({})
    /\ NoReader
    /\ NoEncoding
    /\ NoZipping
    /\ NoStepping
    /\ NoInflating
    /\ first_path = <<>>
    /\ iter_func = ""
    /\ args \in [by : {"relpath", "hash"}]
    /\ action_names = <<>>
    /\ left \in Sides({"", "p"})
    /\ right \in Sides({"", "p", "q"})
    /\ hasher \in BOOLEAN
    /\ dispatched = <<>>

NextCompare == Compare

SpecCompare == InitCompare /\ [][NextCompare]_vars

\* The classifications that the calls made for a key name.
TypesOf(key) ==
    {dispatched[i].type_ : i \in {j \in DOMAIN dispatched : dispatched[j].key = key}}

\* The positions of the calls made for a key.
CallsOf(key) == {i \in DOMAIN dispatched : dispatched[i].key = key}

\* C36 as stated: after compare, every key of both sides that is not ignored
\* has been dispatched to exactly one classification among same_file and the
\* eight of ACTIONS_BOTH; every key of one side only that is not ignored has
\* been dispatched exactly once, as left_only or right_only; and within each
\* of the three loops the keys come in sorted order.
C36_OneClassificationPerKey ==
    dispatched # <<>> =>
        /\ \A key \in Keys \ DOMAIN right :
                key \in DOMAIN left /\ ~ignored(args.by, key) =>
                    /\ Cardinality(CallsOf(key)) = 1
                    /\ TypesOf(key) = {"left_only"}
        /\ \A key \in Keys \ DOMAIN left :
                key \in DOMAIN right /\ ~ignored(args.by, key) =>
                    /\ Cardinality(CallsOf(key)) = 1
                    /\ TypesOf(key) = {"right_only"}
        /\ \A key \in DOMAIN left \cap DOMAIN right :
                ~ignored(args.by, key) =>
                    /\ Cardinality(TypesOf(key)) = 1
                    /\ TypesOf(key) \subseteq
                            {"same_file"} \cup
                            {ACTIONS_BOTH[i] : i \in DOMAIN ACTIONS_BOTH}
        /\ \A i, j \in DOMAIN dispatched :
                /\ i < j
                /\ dispatched[j].type_ # "close"
                /\ (dispatched[i].type_ \in {"left_only", "right_only"}
                        => dispatched[i].type_ = dispatched[j].type_)
                /\ (dispatched[j].type_ \in {"left_only", "right_only"}
                        => dispatched[i].type_ = dispatched[j].type_)
                => dispatched[i].key <= dispatched[j].key

\* C39: no step changes what zipfile.zlib is bound to: after copy_zip has
\* returned or raised it is the object it was before the call.
C39_ZlibRestored == [][zlib' = zlib]_vars

\* copy_zip has raised with a part of the members written, and zipfile.zlib
\* is the module it was.
C39_Witness ==
    /\ zipped = "raised"
    /\ Len(zip_out) < Len(zip_in)
    /\ zlib = "zlib"

\* ------------------------------------------------------------ DummyDecompress
Octets == {0, 1}

\* seq[n:].
Rest(seq, n) == SubSeq(seq, n + 1, Len(seq))

\* The data arguments that still fit after fedsofar.
Datas(fedsofar) ==
    UNION {[1 .. n -> Octets] : n \in 0 .. (MaxFed - Len(fedsofar))}

\* decompress of the copy in zip-tool.py: data[:max_length], the rest lost.
DummyDecompress_decompress_cut(tail, data, max_length) ==
    [out |-> Take(data, max_length), unconsumed_tail |-> tail]

\* DummyDecompress.decompress: what it returns and what it leaves in
\* self.unconsumed_tail.
DummyDecompress_decompress(tail, data, max_length) ==
    IF max_length = 0
    THEN IF tail # <<>>
         THEN [out |-> tail \o data, unconsumed_tail |-> <<>>]
         ELSE [out |-> data, unconsumed_tail |-> tail]
    ELSE IF tail # <<>> \/ Len(data) > max_length
    THEN LET tail_len == Len(tail)
             data_len == IF max_length - tail_len > 0
                         THEN max_length - tail_len ELSE 0
         IN  [out |-> Take(tail, max_length) \o Take(data, data_len),
              unconsumed_tail |-> Rest(tail, max_length) \o Rest(data, data_len)]
    ELSE [out |-> data, unconsumed_tail |-> tail]

\* DummyDecompress.flush.
DummyDecompress_flush(tail, length) ==
    [out |-> Take(tail, length), unconsumed_tail |-> Rest(tail, length)]

Decompress ==
    \E data \in Datas(fed), max_length \in 0 .. MaxLength :
        LET r == DummyDecompress_decompress(unconsumed_tail, data, max_length)
        IN  /\ fed' = fed \o data
            /\ returned' = returned \o r.out
            /\ unconsumed_tail' = r.unconsumed_tail
            /\ chunk' = [call |-> "decompress", max_length |-> max_length,
                         out |-> r.out]
            /\ UNCHANGED <<catalog, reader, encoding, zipping, stepping,
                           comparing>>

Flush ==
    \E length \in 1 .. MaxLength :
        LET r == DummyDecompress_flush(unconsumed_tail, length)
        IN  /\ returned' = returned \o r.out
            /\ unconsumed_tail' = r.unconsumed_tail
            /\ chunk' = [call |-> "flush", max_length |-> length,
                         out |-> r.out]
            /\ UNCHANGED <<fed, catalog, reader, encoding, zipping, stepping,
                           comparing>>

\* DummyDecompress.__init__.
InitInflate ==
    /\ StartCatalog({})
    /\ NoReader
    /\ NoEncoding
    /\ NoZipping
    /\ NoStepping
    /\ NoComparing
    /\ unconsumed_tail = <<>>
    /\ fed = <<>>
    /\ returned = <<>>
    /\ chunk = <<>>

NextInflate == Decompress \/ Flush

SpecInflate == InitInflate /\ [][NextInflate]_vars

\* C40: the chunks returned so far and the unconsumed tail are, joined, the
\* data arguments joined in their order, so that once flush has emptied the
\* tail the chunks returned are exactly the data fed; and a chunk returned by
\* decompress with max_length > 0 or by flush is no longer than that length.
C40_BytesConserved ==
    /\ returned \o unconsumed_tail = fed
    /\ unconsumed_tail = <<>> => returned = fed
    /\ DOMAIN chunk # {} /\ chunk.max_length > 0 =>
            Len(chunk.out) <= chunk.max_length

\* Data longer than max_length went into the tail, and flush has just
\* returned the last of it.
C40_Witness ==
    /\ DOMAIN chunk # {}
    /\ chunk.call = "flush"
    /\ chunk.out # <<>>
    /\ unconsumed_tail = <<>>
    /\ Len(fed) > MaxLength
    /\ returned = fed

====
